---- MODULE Spec2Model ----
(***************************************************************************)
(* web3verify: token-gated Discord roles.  The model covers the SQLite     *)
(* store (database.js), the slash-command handlers (handlers.js), the      *)
(* ledger predicates (blockchain.js) and the periodic VerificationService  *)
(* (verifier.js).  One guild is modelled; async handlers interleave at     *)
(* their awaits on the single node.js event loop.                          *)
(***************************************************************************)
EXTENDS Integers, Sequences, FiniteSets, TLC

\* ------------------------------------------------------------------ bounds
MaxTime == 1        \* Date.now() ranges over 0..MaxTime
MaxHistory == 2     \* rows kept in verification_history
MaxRuns == 2        \* runVerification invocations that can be live at once
MaxBal == 1         \* largest token count the ledger reports
MaxRaw == 6         \* raw ERC20 amounts a contract reports range over 0..MaxRaw
MaxWhole == 2       \* whole part of a configured threshold, 0..MaxWhole
MaxDecimals == 1    \* token decimals range over 0..MaxDecimals
MaxUnlinks == 2     \* handleRemoveWallet interactions that can be in flight at once
MaxText == 3        \* characters in a min_balance text as an admin types it
MaxRules == 2       \* rows /addrole may add to role_configs

\* ------------------------------------------------------------------ universe
Users == {"u1", "u2"}
Addrs == {"a1", "a2", "a3"}       \* lower-case hex addresses
Guild == "g1"
Null == "null"                    \* JS null (an absent command option)
Undefined == "undefined"          \* a property that the row does not have
Malformed == "malformed"          \* a signature string ethers cannot parse
Times == 0..MaxTime

\* Address strings as users type them: lower case ("a1"), checksum case ("A1"),
\* or something the /^0x[a-fA-F0-9]{40}$/ test rejects ("zz").
\* "Aa1" is a1 in a mixed case whose checksum is wrong: it passes the regex and
\* lower-cases to a1, but ethers refuses it as a call argument.

\* String.prototype.toLowerCase on the modelled address strings.
ToLowerCase(s) ==
  CASE s = "A1" -> "a1"
    [] s = "Aa1" -> "a1"
    [] s = "A2" -> "a2"
    [] s = "A3" -> "a3"
    [] s = "AX" -> "ax"
    [] OTHER -> s

\* ethers returns recovered addresses in checksum case.
GetAddress(a) ==
  CASE a = "a1" -> "A1"
    [] a = "a2" -> "A2"
    [] a = "a3" -> "A3"
    [] OTHER -> "AX"

\* /^0x[a-fA-F0-9]{40}$/.test(walletAddress)
IsAddressFormat(s) == ToLowerCase(s) \in Addrs

\* ------------------------------------------------------------------ state
VARIABLES
  now,           \* Date.now()
  users,         \* table users: a row per discord_id that has one
  wallets,       \* table wallets: set of rows
  role_configs,  \* table role_configs: sequence of rows in id order
  history,       \* table verification_history: sequence of rows in id order
  balance,       \* ledger: balanceOf per address on the rule's contract
  granted,       \* Discord: set of <<discord_id, role_id>> the members hold
  isRunning,     \* VerificationService.isRunning
  startupArmed,  \* the 10 s setTimeout of start() has not fired yet
  job,           \* the cron task of start(): "scheduled", or "stopped" by stop()
  runs,          \* live invocations of runVerification, by slot
  rv,            \* the in-flight handleReverify interaction
  rw,            \* the in-flight handleRemoveWallet interactions, by slot
  issued,        \* the messages handleGetMessage has shown, per reply
  ev             \* the step just taken and what it observed (history variable)

vars == <<now, users, wallets, role_configs, history, balance, granted,
          isRunning, startupArmed, job, runs, rv, rw, issued, ev>>

storeVars == <<users, wallets, role_configs, history>>

\* ------------------------------------------------------------------ store
\* getAllUsers: SELECT DISTINCT discord_id, username, created_at, last_checked.
\* The rows carry no wallet_address column.
GetAllUsersRow(d) ==
  [discord_id |-> d, created_at |-> users[d].created_at,
   last_checked |-> users[d].last_checked]

\* Property read on a row object: undefined when the row lacks the column.
Prop(row, name) == IF name \in DOMAIN row THEN row[name] ELSE Undefined

\* All orders in which a result set without ORDER BY can come back.
Orderings(S) ==
  {s \in [1..Cardinality(S) -> S] : \A i, j \in DOMAIN s : i # j => s[i] # s[j]}

GetAllUsers == Orderings({GetAllUsersRow(d) : d \in DOMAIN users})

\* getUser: the row, or undefined; callers keep it with .filter(Boolean).
GetUser(d) == IF d \in DOMAIN users THEN <<GetAllUsersRow(d)>> ELSE <<>>

\* ensureUser as INSERT OR REPLACE: the row is written anew at every bind.
EnsureUserReplace(us, d) ==
  [x \in DOMAIN us \cup {d} |->
     IF x = d THEN [created_at |-> now, last_checked |-> -1] ELSE us[x]]

\* ensureUser: INSERT OR IGNORE keeps an existing row and its created_at.
EnsureUser(us, d) ==
  IF d \in DOMAIN us THEN us
  ELSE us @@ (d :> [created_at |-> now, last_checked |-> -1])

\* A reconciliation that leaves last_checked alone.
UpdateLastCheckedSkipped(us, d) == us

\* updateLastChecked: UPDATE users SET last_checked = now WHERE discord_id = d.
UpdateLastChecked(us, d) ==
  IF d \notin DOMAIN us THEN us ELSE [us EXCEPT ![d].last_checked = now]

WalletsOf(ws, d) == {w \in ws : w.discord_id = d}

GetWalletCount(ws, d) == Cardinality(WalletsOf(ws, d))

\* ORDER BY verified_at ASC alone.
SortKeyTimeOnly(a, b) == a.verified_at <= b.verified_at

\* ORDER BY is_primary DESC, verified_at ASC; rows with equal keys in any order.
SortKeyLeq(a, b) ==
  \/ a.is_primary > b.is_primary
  \/ a.is_primary = b.is_primary /\ a.verified_at <= b.verified_at

GetWallets(ws, d) ==
  {s \in Orderings(WalletsOf(ws, d)) :
     \A i, j \in DOMAIN s : i < j => SortKeyLeq(s[i], s[j])}

\* setPrimaryWallet: clear the flag on all rows of d, set it on the given one.
SetPrimaryWallet(ws, d, walletAddress) ==
  {IF w.discord_id # d THEN w
   ELSE [w EXCEPT !.is_primary =
           IF w.wallet_address = ToLowerCase(walletAddress) THEN 1 ELSE 0] : w \in ws}

\* The INSERT OR IGNORE of addWallet: UNIQUE(discord_id, wallet_address).
InsertWallet(ws, d, walletAddress) ==
  IF \E w \in ws : w.discord_id = d /\ w.wallet_address = ToLowerCase(walletAddress)
  THEN ws
  ELSE ws \cup {[discord_id |-> d, wallet_address |-> ToLowerCase(walletAddress),
                 verified_at |-> now, is_primary |-> 0]}

\* addWallet with the address stored as typed and a plain INSERT.
AddWalletAsTyped(ws, d, walletAddress) ==
  ws \cup {[discord_id |-> d, wallet_address |-> walletAddress,
            verified_at |-> now, is_primary |-> IF WalletsOf(ws, d) = {} THEN 1 ELSE 0]}

\* addWallet (the wallets table; ensureUser is applied by the caller's step).
AddWallet(ws, d, walletAddress) ==
  LET ins == InsertWallet(ws, d, walletAddress)
  IN IF GetWalletCount(ins, d) = 1 THEN SetPrimaryWallet(ins, d, walletAddress) ELSE ins

\* The document store's addWallet (database-mongo): findOneAndUpdate with
\* upsert replaces verified_at and is_primary of an existing document too;
\* is_primary is kept as 1/0 as in the relational rows.
AddWalletMongo(ws, d, walletAddress, isPrimary) ==
  LET doc == [discord_id |-> d, wallet_address |-> ToLowerCase(walletAddress),
              verified_at |-> now, is_primary |-> IF isPrimary THEN 1 ELSE 0]
      ups == {w \in ws : ~(w.discord_id = d /\ w.wallet_address = doc.wallet_address)}
               \cup {doc}
  IN IF GetWalletCount(ups, d) = 1 THEN SetPrimaryWallet(ups, d, walletAddress) ELSE ups

\* removeWallet with the address as its only condition: the binding of every
\* identity to that address goes.
RemoveWalletAnyOwner(ws, d, walletAddress) ==
  {w \in ws : w.wallet_address # ToLowerCase(walletAddress)}

\* removeWallet: DELETE WHERE discord_id = d AND wallet_address = lower(addr).
RemoveWallet(ws, d, walletAddress) ==
  {w \in ws : ~(w.discord_id = d /\ w.wallet_address = ToLowerCase(walletAddress))}

\* logVerification: one row appended to verification_history.
LogVerification(h, d, guildId, roleId, action, reason) ==
  Append(h, [discord_id |-> d, guild_id |-> guildId, role_id |-> roleId,
             action |-> action, reason |-> reason, timestamp |-> now])

\* getVerificationHistory(discordId, limit): the ids of the identity's rows,
\* ORDER BY timestamp DESC LIMIT limit; rows with equal timestamps in any order.
\* A row's id is its place in the table.
GetVerificationHistory(h, d, limit) ==
  LET ids == {i \in DOMAIN h : h[i].discord_id = d}
      sorted == {s \in Orderings(ids) :
                   \A i, j \in DOMAIN s :
                     i < j => h[s[i]].timestamp >= h[s[j]].timestamp}
  IN {SubSeq(s, 1, IF Len(s) < limit THEN Len(s) ELSE limit) : s \in sorted}

\* addRoleConfig: INSERT with the next id; the two addresses are stored in
\* lower case, token_type and min_balance as given.
AddRoleConfig(rcs, guildId, roleId, contractAddress, tokenType, minBalance, stakingContract) ==
  Append(rcs, [id |-> Len(rcs) + 1, guild_id |-> guildId, role_id |-> roleId,
               contract_address |-> ToLowerCase(contractAddress),
               token_type |-> tokenType, min_balance |-> minBalance,
               staking_contract |-> IF stakingContract = Null THEN Null
                                    ELSE ToLowerCase(stakingContract),
               created_at |-> now])

\* getRoleConfigs(guildId)
GetRoleConfigs(guildId) == SelectSeq(role_configs, LAMBDA c : c.guild_id = guildId)

\* ------------------------------------------------------------------ ledger
\* What one rule evaluation meets outside the process: which balanceOf reads
\* the RPC endpoint answers, whether guild.roles.cache still has the role, and
\* whether the roles.add / roles.remove REST call goes through.
EnvInputs == [rpc : [Addrs -> BOOLEAN], roleExists : BOOLEAN, callOk : BOOLEAN]

\* The same for a step that reads one address only.
EnvInputs1 == {e \in EnvInputs : \A a, b \in Addrs : e.rpc[a] = e.rpc[b]}

\* The same for a step that reads the addresses in S: the endpoint's answer
\* for any other address is not asked for.
EnvFor(S) == {e \in EnvInputs : \A a \in Addrs \ S : e.rpc[a]}

AddressesOf(rows) == {rows[i].wallet_address : i \in DOMAIN rows}

\* contract.balanceOf(walletAddress): ethers rejects undefined and a mixed-case
\* address with a wrong checksum before any request; the request itself may fail.
BalanceOfThrows(walletAddress, rpc) ==
  IF walletAddress \notin {"a1", "A1", "a2", "a3"} THEN TRUE
  ELSE ~rpc[ToLowerCase(walletAddress)]

BalanceOf(walletAddress) == balance[ToLowerCase(walletAddress)]

\* checkERC721Balance: hasBalance = balance >= BigInt(minBalance); errors rethrown.
CheckERC721Balance(walletAddress, minBalance, rpc) ==
  IF BalanceOfThrows(walletAddress, rpc) THEN "err"
  ELSE IF BalanceOf(walletAddress) >= minBalance THEN "yes" ELSE "no"

\* What one contract read can give: a raw amount, or a rejected call.
RejectedCall == [ok |-> FALSE, value |-> 0]
Reads == {[ok |-> TRUE, value |-> n] : n \in 0 .. MaxRaw} \cup {RejectedCall}

RECURSIVE Pow10(_)
Pow10(n) == IF n = 0 THEN 1 ELSE 10 * Pow10(n - 1)

\* min_balance is a decimal string: digits, optionally a point and more digits.
\* whole is the value of the digits before the point, frac the digits after it.
DecimalStrings == [whole : 0 .. MaxWhole, frac : {<<>>, <<5>>, <<2, 5>>}]

RECURSIVE DigitsValue(_)
DigitsValue(ds) ==
  IF ds = <<>> THEN 0 ELSE 10 * DigitsValue(SubSeq(ds, 1, Len(ds) - 1)) + ds[Len(ds)]

\* ethers.parseUnits(value, decimals) throws when the string has more
\* fraction digits than decimals.
ParseUnitsThrows(value, decimals) == Len(value.frac) > decimals

\* ethers.parseUnits(value, decimals): the string as an integer count of
\* 10^-decimals units.
ParseUnits(value, decimals) ==
  value.whole * Pow10(decimals)
    + DigitsValue(value.frac) * Pow10(decimals - Len(value.frac))

\* getStakedBalance with the two accessors in the other order: balanceOf of
\* the staking contract first, stakedBalanceOf when that call is rejected.
GetStakedBalanceFallbackFirst(staking) ==
  IF staking.balanceOf.ok
  THEN [ok |-> TRUE, value |-> staking.balanceOf.value, calls |-> <<"balanceOf">>]
  ELSE [ok |-> staking.stakedBalanceOf.ok, value |-> staking.stakedBalanceOf.value,
        calls |-> <<"balanceOf", "stakedBalanceOf">>]

\* getStakedBalance: stakedBalanceOf, and balanceOf of the staking contract
\* when that call is rejected; an error of the second call is rethrown.
\* calls lists the accessors called, in order.
GetStakedBalance(staking) ==
  IF staking.stakedBalanceOf.ok
  THEN [ok |-> TRUE, value |-> staking.stakedBalanceOf.value,
        calls |-> <<"stakedBalanceOf">>]
  ELSE [ok |-> staking.balanceOf.ok, value |-> staking.balanceOf.value,
        calls |-> <<"stakedBalanceOf", "balanceOf">>]

\* The check with the staked amount left out of the comparison.
CheckSpotOnly(token, staking, minBalance) ==
  IF ~token.balanceOf.ok \/ ~GetStakedBalance(staking).ok \/ ~token.decimals.ok
  THEN "err"
  ELSE IF ParseUnitsThrows(minBalance, token.decimals.value) THEN "err"
  ELSE IF token.balanceOf.value >= ParseUnits(minBalance, token.decimals.value)
       THEN "yes" ELSE "no"

\* checkERC20BalanceWithStaking: BigInt sum of the two reads against
\* parseUnits(minBalance, decimals); any rejected call or a parse error is
\* rethrown. "yes" / "no" is hasBalance, "err" a thrown error.
CheckERC20BalanceWithStaking(token, staking, minBalance) ==
  IF ~token.balanceOf.ok THEN "err"
  ELSE IF ~GetStakedBalance(staking).ok THEN "err"
  ELSE IF ~token.decimals.ok THEN "err"
  ELSE IF ParseUnitsThrows(minBalance, token.decimals.value) THEN "err"
  ELSE LET walletBalance == token.balanceOf.value
           stakedBalance == GetStakedBalance(staking).value
           totalBalance == walletBalance + stakedBalance
           minBalanceFormatted == ParseUnits(minBalance, token.decimals.value)
       IN IF totalBalance >= minBalanceFormatted THEN "yes" ELSE "no"

\* verifyTokenRequirements: dispatch on token_type; any other kind throws.
\* "yes" / "no" is result.hasBalance, "err" a thrown error.
VerifyTokenRequirements(walletAddress, roleConfig, rpc) ==
  IF roleConfig.token_type = "ERC721"
  THEN CheckERC721Balance(walletAddress, roleConfig.min_balance, rpc)
  ELSE "err"

\* ------------------------------------------------------------------ threshold texts
\* role_configs.min_balance is TEXT, stored as typed.  Texts are sequences of
\* characters: digits, the ':' of the ERC1155 format, the decimal point, and
\* "x" for any other character.
Chars == {"0", "1", "2", ":", ".", "x"}
Digits == {"0", "1", "2"}
Texts == UNION {[1..n -> Chars] : n \in 0..MaxText}

DigitOf(c) == IF c = "1" THEN 1 ELSE IF c = "2" THEN 2 ELSE 0

AllDigits(s) == \A i \in DOMAIN s : s[i] \in Digits

\* The number a text of digits denotes; the empty text gives 0.
RECURSIVE TextValue(_)
TextValue(s) ==
  IF s = <<>> THEN 0
  ELSE 10 * TextValue(SubSeq(s, 1, Len(s) - 1)) + DigitOf(s[Len(s)])

\* BigInt(text): a SyntaxError for anything but digits; BigInt('') is 0n.
BigIntThrows(s) == ~AllDigits(s)
BigInt(s) == TextValue(s)

\* ethers' conversion of a text argument to uint256: as BigInt, but the empty
\* text is rejected too.
BigNumberishThrows(s) == s = <<>> \/ ~AllDigits(s)

\* Index of the first sep in s, 0 if there is none.
IndexOf(s, sep) ==
  IF \E i \in DOMAIN s : s[i] = sep
  THEN CHOOSE i \in DOMAIN s : s[i] = sep /\ \A j \in 1..(i - 1) : s[j] # sep
  ELSE 0

\* String.prototype.split(sep): the pieces between the separators, empty
\* pieces included; a text without the separator is its own single piece.
RECURSIVE Split(_, _)
Split(s, sep) ==
  LET i == IndexOf(s, sep)
  IN IF i = 0 THEN <<s>>
     ELSE <<SubSeq(s, 1, i - 1)>> \o Split(SubSeq(s, i + 1, Len(s)), sep)

\* What the ERC1155 contract holds for the wallet: a count per sub-id (0 for a
\* sub-id it has never minted), and whether the endpoint answers.
MultiBalanceOf(multi, id) == IF id \in DOMAIN multi.counts THEN multi.counts[id] ELSE 0

\* checkERC1155Balance with the sub-id argument ignored: sub-id 1 is read.
CheckERC1155FirstId(multi, tokenId, minBalance) ==
  IF BigNumberishThrows(tokenId) \/ ~multi.ok \/ BigIntThrows(minBalance) THEN "err"
  ELSE IF MultiBalanceOf(multi, 1) >= BigInt(minBalance) THEN "yes" ELSE "no"

\* checkERC1155Balance: balanceOf(walletAddress, tokenId) against
\* BigInt(minBalance); errors rethrown.
CheckERC1155Balance(multi, tokenId, minBalance) ==
  IF BigNumberishThrows(tokenId) THEN "err"
  ELSE IF ~multi.ok THEN "err"
  ELSE IF BigIntThrows(minBalance) THEN "err"
  ELSE IF MultiBalanceOf(multi, BigInt(tokenId)) >= BigInt(minBalance)
       THEN "yes" ELSE "no"

\* case 'ERC1155' of verifyTokenRequirements:
\* const [tokenId, amount] = min_balance.split(':'); amount || '1'.
VerifyERC1155(roleConfig, multi) ==
  LET parts == Split(roleConfig.min_balance, ":")
      tokenId == parts[1]
      amount == IF Len(parts) >= 2 THEN parts[2] ELSE Undefined
  IN CheckERC1155Balance(multi, tokenId,
                         IF amount = Undefined \/ amount = <<>> THEN <<"1">> ELSE amount)

\* ethers.parseUnits accepts digits, optionally a point, optionally more
\* digits, with at least one digit in all.
DecimalShape(s) ==
  /\ \A i \in DOMAIN s : s[i] \in Digits \cup {"."}
  /\ Cardinality({i \in DOMAIN s : s[i] = "."}) <= 1
  /\ \E i \in DOMAIN s : s[i] \in Digits

\* The decimal a text of that shape denotes: the value of the digits before
\* the point and the digits after it.
ToDecimal(s) ==
  LET i == IndexOf(s, ".")
      w == IF i = 0 THEN s ELSE SubSeq(s, 1, i - 1)
      f == IF i = 0 THEN <<>> ELSE SubSeq(s, i + 1, Len(s))
  IN [whole |-> TextValue(w), frac |-> [k \in DOMAIN f |-> DigitOf(f[k])]]

\* checkERC20Balance: balanceOf, then decimals, then the comparison with
\* parseUnits(minBalance, decimals); errors rethrown.
CheckERC20Balance(token, minBalance) ==
  IF ~token.balanceOf.ok THEN "err"
  ELSE IF ~token.decimals.ok THEN "err"
  ELSE IF ParseUnitsThrows(minBalance, token.decimals.value) THEN "err"
  ELSE IF token.balanceOf.value >= ParseUnits(minBalance, token.decimals.value)
       THEN "yes" ELSE "no"

\* checkERC721Balance with a rejected read reported as a balance of zero.
CheckERC721ZeroOnError(token, minBalance) ==
  IF BigIntThrows(minBalance) THEN "err"
  ELSE IF token.balanceOf.ok /\ token.balanceOf.value >= BigInt(minBalance)
       THEN "yes" ELSE "no"

\* checkERC721Balance on the answer of the contract call and the threshold
\* text: balance >= BigInt(minBalance); errors rethrown.
CheckERC721Read(token, minBalance) ==
  IF ~token.balanceOf.ok THEN "err"
  ELSE IF BigIntThrows(minBalance) THEN "err"
  ELSE IF token.balanceOf.value >= BigInt(minBalance) THEN "yes" ELSE "no"

\* verifyTokenRequirements on a stored rule and the answers of the contracts:
\* the switch on token_type, with its default branch throwing.  For ERC20 a
\* threshold text parseUnits rejects ends in the thrown error whichever call
\* precedes it.
VerifyTokenRequirementsCall(roleConfig, chain) ==
  IF roleConfig.token_type = "ERC20"
  THEN IF ~DecimalShape(roleConfig.min_balance)
       THEN "err"
       ELSE IF roleConfig.staking_contract # Null
       THEN CheckERC20BalanceWithStaking(chain.token, chain.staking,
                                         ToDecimal(roleConfig.min_balance))
       ELSE CheckERC20Balance(chain.token, ToDecimal(roleConfig.min_balance))
  ELSE IF roleConfig.token_type = "ERC721"
  THEN CheckERC721Read(chain.token, roleConfig.min_balance)
  ELSE IF roleConfig.token_type = "ERC1155"
  THEN VerifyERC1155(roleConfig, chain.multi)
  ELSE "err"

\* The result of getStakedBalance where verifyTokenRequirements gets as far as
\* calling it, and no call otherwise.
NotCalled == [ok |-> FALSE, value |-> 0, calls |-> <<>>]
StakedCall(roleConfig, chain) ==
  IF /\ roleConfig.token_type = "ERC20"
     /\ roleConfig.staking_contract # Null
     /\ chain.token.balanceOf.ok
  THEN GetStakedBalance(chain.staking)
  ELSE NotCalled

\* ------------------------------------------------------------------ binding proof
\* getVerificationMessage(discordId, username): the text embeds the id and
\* Date.now() at the moment of the call.
GetVerificationMessage(discordId) == [id |-> discordId, ts |-> now]

\* api.js getVerificationMessage(): one fixed text, with no id and no time.
ApiMessage == [id |-> Null, ts |-> -1]

ApiGetVerificationMessage == ApiMessage

Messages == [id : Users, ts : Times] \cup {ApiMessage}

\* The signature strings a user can submit: one that does not parse, or the
\* signature of some key over some message.
Signatures == [signer : Addrs \cup {Malformed}, msg : Messages]

\* ethers.verifyMessage: throws on a malformed signature; recovers the signer
\* when the signature is over this message, and some unrelated address otherwise.
VerifyMessage(message, signature) ==
  IF signature.signer = Malformed THEN "throw"
  ELSE IF signature.msg = message THEN GetAddress(signature.signer)
  ELSE GetAddress("ax")

\* verifySignature without the comparison: any signature that parses is accepted.
VerifySignatureNoCompare(message, signature, expectedAddress) ==
  VerifyMessage(message, signature) # "throw"

\* BlockchainService.verifySignature
VerifySignature(message, signature, expectedAddress) ==
  LET recoveredAddress == VerifyMessage(message, signature)
  IN IF recoveredAddress = "throw" THEN FALSE
     ELSE ToLowerCase(recoveredAddress) = ToLowerCase(expectedAddress)

\* ------------------------------------------------------------------ decisions
\* The outcome of one rule for one identity, as the step observed it.
\* down: the addresses whose read the endpoint would not answer in this step.
Decision(roleId, e, reads, had, call) ==
  [role_id |-> roleId, exists |-> e.roleExists,
   down |-> {a \in Addrs : ~e.rpc[a]}, reads |-> reads, had |-> had, call |-> call]

HasRole(g, d, roleId) == <<d, roleId>> \in g

\* roles.add with the log written before the call is awaited: the row is there
\* even when the call is rejected.
ApplyAddLogFirst(g, h, d, roleId, reason, callOk) ==
  [granted |-> IF callOk THEN g \cup {<<d, roleId>>} ELSE g,
   history |-> LogVerification(h, d, Guild, roleId, "added", reason),
   call |-> IF callOk THEN "add_ok" ELSE "add_fail"]

\* await member.roles.add(role), then db.logVerification(..., 'added', reason):
\* a rejected call skips the log.
ApplyAdd(g, h, d, roleId, reason, callOk) ==
  IF callOk
  THEN [granted |-> g \cup {<<d, roleId>>},
        history |-> LogVerification(h, d, Guild, roleId, "added", reason),
        call |-> "add_ok"]
  ELSE [granted |-> g, history |-> h, call |-> "add_fail"]

\* await member.roles.remove(role), then db.logVerification(..., 'removed', reason).
ApplyRemove(g, h, d, roleId, reason, callOk) ==
  IF callOk
  THEN [granted |-> g \ {<<d, roleId>>},
        history |-> LogVerification(h, d, Guild, roleId, "removed", reason),
        call |-> "remove_ok"]
  ELSE [granted |-> g, history |-> h, call |-> "remove_fail"]

NoCall(g, h) == [granted |-> g, history |-> h, call |-> "none"]

\* The wallet loop of handleReverify without its break: every wallet is read.
RECURSIVE ReverifyReadsNoBreak(_, _, _, _)
ReverifyReadsNoBreak(userWallets, i, config, rpc) ==
  IF i > Len(userWallets) THEN <<>>
  ELSE <<[wallet |-> userWallets[i].wallet_address,
          result |-> VerifyTokenRequirements(userWallets[i].wallet_address, config, rpc)]>>
       \o ReverifyReadsNoBreak(userWallets, i + 1, config, rpc)

\* The wallet loop of handleReverify: each read in its own try/catch, break on
\* the first wallet with hasBalance.  Returns the reads made, in order.
RECURSIVE ReverifyReads(_, _, _, _)
ReverifyReads(userWallets, i, config, rpc) ==
  IF i > Len(userWallets) THEN <<>>
  ELSE LET r == VerifyTokenRequirements(userWallets[i].wallet_address, config, rpc)
           rd == [wallet |-> userWallets[i].wallet_address, result |-> r]
       IN IF r = "yes" THEN <<rd>>
          ELSE <<rd>> \o ReverifyReads(userWallets, i + 1, config, rpc)

\* The wallet loop of handleRemoveWallet: no inner try/catch, so the first
\* failing read leaves the loop (and the rule) as well.
RECURSIVE RemoveWalletReads(_, _, _, _)
RemoveWalletReads(remainingWallets, i, config, rpc) ==
  IF i > Len(remainingWallets) THEN <<>>
  ELSE LET r == VerifyTokenRequirements(remainingWallets[i].wallet_address, config, rpc)
           rd == [wallet |-> remainingWallets[i].wallet_address, result |-> r]
       IN IF r \in {"yes", "err"} THEN <<rd>>
          ELSE <<rd>> \o RemoveWalletReads(remainingWallets, i + 1, config, rpc)

AnyYes(reads) == \E i \in DOMAIN reads : reads[i].result = "yes"
AnyErr(reads) == \E i \in DOMAIN reads : reads[i].result = "err"

\* handleVerify's rule without the roles.add call: the wallet is checked and
\* nothing is granted.
VerifyRuleNoGrant(g, h, d, walletAddress, config, e) ==
  LET r == VerifyTokenRequirements(walletAddress, config, e.rpc)
  IN [granted |-> g, history |-> h,
      decision |-> Decision(config.role_id, e,
                            <<[wallet |-> ToLowerCase(walletAddress), result |-> r]>>,
                            HasRole(g, d, config.role_id), "none")]

\* handleVerify's rule with a removal for a new wallet without the balance:
\* what the identity holds follows the new wallet alone.
VerifyRuleFollowsWallet(g, h, d, walletAddress, config, e) ==
  LET r == VerifyTokenRequirements(walletAddress, config, e.rpc)
      reads == <<[wallet |-> ToLowerCase(walletAddress), result |-> r]>>
      had == HasRole(g, d, config.role_id)
      out == IF r = "yes" /\ e.roleExists
             THEN ApplyAdd(g, h, d, config.role_id, "Initial verification", e.callOk)
             ELSE IF r = "no" /\ e.roleExists /\ had
             THEN ApplyRemove(g, h, d, config.role_id, "Insufficient balance", e.callOk)
             ELSE NoCall(g, h)
  IN [granted |-> out.granted, history |-> out.history,
      decision |-> Decision(config.role_id, e, reads, had, out.call)]

\* One rule of handleVerify's loop: add the role whenever the new wallet has
\* the balance and the role exists; nothing is ever removed.
VerifyRule(g, h, d, walletAddress, config, e) ==
  LET r == VerifyTokenRequirements(walletAddress, config, e.rpc)
      reads == <<[wallet |-> ToLowerCase(walletAddress), result |-> r]>>
      had == HasRole(g, d, config.role_id)
      out == IF r = "yes" /\ e.roleExists
             THEN ApplyAdd(g, h, d, config.role_id, "Initial verification", e.callOk)
             ELSE NoCall(g, h)
  IN [granted |-> out.granted, history |-> out.history,
      decision |-> Decision(config.role_id, e, reads, had, out.call)]

\* handleReverify's rule without the hasRole test: the role is added whenever
\* a wallet qualifies and removed whenever none does.
ReverifyRuleNoHasRole(g, h, d, userWallets, config, e) ==
  LET reads == IF e.roleExists THEN ReverifyReads(userWallets, 1, config, e.rpc) ELSE <<>>
      out == IF ~e.roleExists THEN NoCall(g, h)
             ELSE IF AnyYes(reads)
             THEN ApplyAdd(g, h, d, config.role_id, "Admin re-verification", e.callOk)
             ELSE ApplyRemove(g, h, d, config.role_id,
                              "Insufficient balance on all wallets", e.callOk)
  IN [granted |-> out.granted, history |-> out.history,
      decision |-> Decision(config.role_id, e, reads, HasRole(g, d, config.role_id),
                            out.call)]

\* handleReverify's rule without the test of the role object: the decision is
\* taken and the call made as if the role were there.
ReverifyRuleNoRoleTest(g, h, d, userWallets, config, e) ==
  LET reads == ReverifyReads(userWallets, 1, config, e.rpc)
      meetsRequirements == AnyYes(reads)
      hasRole == HasRole(g, d, config.role_id)
      out == IF meetsRequirements /\ ~hasRole
             THEN ApplyAdd(g, h, d, config.role_id, "Admin re-verification",
                           e.callOk /\ e.roleExists)
             ELSE IF ~meetsRequirements /\ hasRole
             THEN ApplyRemove(g, h, d, config.role_id,
                              "Insufficient balance on all wallets",
                              e.callOk /\ e.roleExists)
             ELSE NoCall(g, h)
  IN [granted |-> out.granted, history |-> out.history,
      decision |-> Decision(config.role_id, e, reads, hasRole, out.call)]

\* One rule of handleReverify's loop for one user.
ReverifyRule(g, h, d, userWallets, config, e) ==
  LET reads == IF e.roleExists THEN ReverifyReads(userWallets, 1, config, e.rpc) ELSE <<>>
      meetsRequirements == AnyYes(reads)
      hasRole == HasRole(g, d, config.role_id)
      out == IF ~e.roleExists THEN NoCall(g, h)
             ELSE IF meetsRequirements /\ ~hasRole
             THEN ApplyAdd(g, h, d, config.role_id, "Admin re-verification", e.callOk)
             ELSE IF ~meetsRequirements /\ hasRole
             THEN ApplyRemove(g, h, d, config.role_id,
                              "Insufficient balance on all wallets", e.callOk)
             ELSE NoCall(g, h)
  IN [granted |-> out.granted, history |-> out.history,
      decision |-> Decision(config.role_id, e, reads, hasRole, out.call)]

\* handleRemoveWallet's rule without the wallet loop: a held role is removed
\* whatever the remaining wallets hold.
RemoveWalletRuleIgnoringBalance(g, h, d, remainingWallets, config, e) ==
  LET hasRole == HasRole(g, d, config.role_id)
      out == IF hasRole /\ e.roleExists
             THEN ApplyRemove(g, h, d, config.role_id, "Wallet removed", e.callOk)
             ELSE NoCall(g, h)
  IN [granted |-> out.granted, history |-> out.history,
      decision |-> Decision(config.role_id, e, <<>>, hasRole, out.call)]

\* One rule of handleRemoveWallet's loop over the remaining wallets.
RemoveWalletRule(g, h, d, remainingWallets, config, e) ==
  LET reads == RemoveWalletReads(remainingWallets, 1, config, e.rpc)
      meetsRequirements == AnyYes(reads)
      hasRole == HasRole(g, d, config.role_id)
      out == IF AnyErr(reads) THEN NoCall(g, h)
             ELSE IF ~meetsRequirements /\ hasRole /\ e.roleExists
             THEN ApplyRemove(g, h, d, config.role_id, "Wallet removed", e.callOk)
             ELSE NoCall(g, h)
  IN [granted |-> out.granted, history |-> out.history,
      decision |-> Decision(config.role_id, e, reads, hasRole, out.call)]

\* VerificationService.checkAndUpdateRole: the predicate is evaluated on
\* user.wallet_address; a thrown error propagates to verifyUser's catch.
CheckAndUpdateRole(g, h, user, roleConfig, e) ==
  LET balanceCheck == VerifyTokenRequirements(Prop(user, "wallet_address"), roleConfig, e.rpc)
      reads == <<[wallet |-> Prop(user, "wallet_address"), result |-> balanceCheck]>>
      hasRole == HasRole(g, user.discord_id, roleConfig.role_id)
      out == IF balanceCheck = "err" \/ ~e.roleExists THEN NoCall(g, h)
             ELSE IF balanceCheck = "yes" /\ ~hasRole
             THEN ApplyAdd(g, h, user.discord_id, roleConfig.role_id,
                           "Periodic verification", e.callOk)
             ELSE IF balanceCheck = "no" /\ hasRole
             THEN ApplyRemove(g, h, user.discord_id, roleConfig.role_id,
                              "Insufficient balance", e.callOk)
             ELSE NoCall(g, h)
  IN [granted |-> out.granted, history |-> out.history,
      decision |-> Decision(roleConfig.role_id, e, reads, hasRole, out.call)]

\* ------------------------------------------------------------------ steps
\* The record of a step: what ran, for whom, how it ended, the signature it
\* verified and the address that verifyMessage recovered, the decision taken on each rule, and what Discord,
\* the history table and the service held when the step began.
Ev(op, user, wallet, outcome, decisions) ==
  [op |-> op, user |-> user, wallet |-> wallet, outcome |-> outcome,
   signed |-> Null, recovered |-> Null, decisions |-> decisions,
   before |-> [granted |-> granted, hlen |-> Len(history),
               live |-> {s \in 1..MaxRuns : runs[s].pc # "idle"}]]

\* errors is the local counter of runVerification that its summary prints.
IdleRun == [pc |-> "idle", users |-> <<>>, ui |-> 0, cfgs |-> <<>>, ci |-> 0,
            errors |-> 0]
\* The rule iteration of verifyUser: checkAndUpdateRole inside try / catch.
\* The catch logs the error and goes on, so nothing is thrown to the caller of
\* verifyUser, whatever failed.
VerifyUserRule(g, h, user, roleConfig, e) ==
  LET o == CheckAndUpdateRole(g, h, user, roleConfig, e)
  IN [granted |-> o.granted, history |-> o.history, decision |-> o.decision,
      thrown |-> FALSE]

\* runVerification's try / catch around verifyUser: errors++ in the catch.
RunErrors(errors, thrown) == IF thrown THEN errors + 1 ELSE errors

IdleRv == [pc |-> "idle", full |-> FALSE, users |-> <<>>, ui |-> 0, cfgs |-> <<>>,
           ci |-> 0, wallets |-> <<>>]
IdleRw == [pc |-> "idle", user |-> Null, wallet |-> Null, count |-> 0]

Slots == 1..MaxRuns
UnlinkSlots == 1..MaxUnlinks

\* The state once index.js has initialised the store and started the service:
\* empty tables but for one ERC721 rule of the guild, cron job scheduled,
\* startup timer armed.
Init ==
  /\ now = 0
  /\ users = <<>>
  /\ wallets = {}
  /\ role_configs = <<[id |-> 1, guild_id |-> Guild, role_id |-> "r1",
                       token_type |-> "ERC721", min_balance |-> 1]>>
  /\ history = <<>>
  /\ balance = [a \in Addrs |-> 0]
  /\ granted = {}
  /\ isRunning = FALSE
  /\ startupArmed = TRUE
  /\ job = "scheduled"
  /\ runs = [s \in Slots |-> IdleRun]
  /\ rv = IdleRv
  /\ rw = [k \in UnlinkSlots |-> IdleRw]
  /\ issued = {}
  /\ ev = Ev("init", Null, Null, "", <<>>)

\* Time passes: Date.now() moves on.
Tick ==
  /\ now < MaxTime
  /\ now' = now + 1
  /\ ev' = Ev("tick", Null, Null, "", <<>>)
  /\ UNCHANGED <<issued, users, wallets, role_configs, history, balance, granted,
                 isRunning, startupArmed, job, runs, rv, rw>>

\* handleGetMessage: the reply shows getVerificationMessage of this moment.
HandleGetMessage(U) ==
  \E u \in U :
    /\ issued' = issued \cup {GetVerificationMessage(u)}
    /\ ev' = Ev("handleGetMessage", u, Null, "", <<>>)
    /\ UNCHANGED <<now, users, wallets, role_configs, history, balance, granted,
                   isRunning, startupArmed, job, runs, rv, rw>>

\* A transfer on the chain changes what balanceOf reports for an address.
LedgerChange(A) ==
  \E a \in A \cap Addrs, v \in 0..MaxBal :
    /\ v # balance[a]
    /\ balance' = [balance EXCEPT ![a] = v]
    /\ ev' = Ev("ledger", Null, Null, "", <<>>)
    /\ UNCHANGED <<now, issued, users, wallets, role_configs, history, granted,
                   isRunning, startupArmed, job, runs, rv, rw>>

\* db.addWallet(...) of the web endpoint over database-mongo: an async function
\* called without await.  Its upserts either land or are rejected; the
\* rejection goes to no handler of verifyWallet.
StoreWrites == {"persisted", "failed"}

\* The response of the web endpoint once the signature is accepted: nothing
\* between db.addWallet(...) and res.json({ success: true, ... }) looks at the
\* outcome of the write.
VerifyWalletResponse(write) == "bound"

\* One pass of the web endpoint over guilds.cache: no client or the identity is
\* not a member ("skip"), the iteration over what getRoleConfigs returned
\* throws into the guild's catch ("throws"), or the rule loop runs ("loop").
GuildPasses == {"skip", "throws", "loop"}

\* One rule of the web endpoint's loop, in its own try / catch: the role is
\* added when the new wallet has the balance, the role exists and the member
\* does not hold it; the other branch only fills rolesFailed.
WebVerifyRule(g, h, d, walletAddress, config, e) ==
  LET r == VerifyTokenRequirements(walletAddress, config, e.rpc)
      reads == <<[wallet |-> ToLowerCase(walletAddress), result |-> r]>>
      had == HasRole(g, d, config.role_id)
      out == IF r = "yes" /\ e.roleExists /\ ~had
             THEN ApplyAdd(g, h, d, config.role_id, "Web verification", e.callOk)
             ELSE NoCall(g, h)
  IN [granted |-> out.granted, history |-> out.history,
      decision |-> Decision(config.role_id, e, reads, had, out.call)]

\* for (const config of roleConfigs) of the web endpoint.
RECURSIVE WebVerifyLoop(_, _, _, _, _, _, _, _)
WebVerifyLoop(cfgs, i, g, h, d, walletAddress, es, decs) ==
  IF i > Len(cfgs) THEN [granted |-> g, history |-> h, decisions |-> decs]
  ELSE LET o == WebVerifyRule(g, h, d, walletAddress, cfgs[i], es[i])
       IN WebVerifyLoop(cfgs, i + 1, o.granted, o.history, d, walletAddress, es,
                        Append(decs, o.decision))

\* for (const config of roleConfigs) of handleVerify.
RECURSIVE VerifyLoop(_, _, _, _, _, _, _, _)
VerifyLoop(cfgs, i, g, h, d, walletAddress, es, decs) ==
  IF i > Len(cfgs) THEN [granted |-> g, history |-> h, decisions |-> decs]
  ELSE LET o == VerifyRule(g, h, d, walletAddress, cfgs[i], es[i])
       IN VerifyLoop(cfgs, i + 1, o.granted, o.history, d, walletAddress, es,
                     Append(decs, o.decision))

\* handleVerify, from the command to its reply.
HandleVerify(U, A, S) ==
  \E u \in U, walletAddress \in A, signature \in S :
    LET message == GetVerificationMessage(u)
        isValid == VerifySignature(message, signature, walletAddress)
        us1 == EnsureUser(users, u)
        ws1 == AddWallet(wallets, u, walletAddress)
        roleConfigs == GetRoleConfigs(Guild)
    IN /\ IF ~IsAddressFormat(walletAddress)
          THEN /\ ev' = Ev("handleVerify", u, walletAddress, "invalid_address", <<>>)
               /\ UNCHANGED <<users, wallets, history, granted>>
          ELSE IF ~isValid
          THEN /\ ev' = [Ev("handleVerify", u, walletAddress, "invalid_signature", <<>>)
                          EXCEPT !.signed = signature,
                                 !.recovered = VerifyMessage(message, signature)]
               /\ UNCHANGED <<users, wallets, history, granted>>
          ELSE IF Len(roleConfigs) = 0
          THEN /\ users' = us1
               /\ wallets' = ws1
               /\ ev' = [Ev("handleVerify", u, walletAddress, "no_roles", <<>>)
                          EXCEPT !.signed = signature,
                                 !.recovered = VerifyMessage(message, signature)]
               /\ UNCHANGED <<history, granted>>
          ELSE \E es \in [1..Len(roleConfigs) -> EnvFor({ToLowerCase(walletAddress)})] :
                 LET o == VerifyLoop(roleConfigs, 1, granted, history, u, walletAddress,
                                     es, <<>>)
                 IN /\ Len(o.history) <= MaxHistory
                    /\ users' = UpdateLastChecked(us1, u)
                    /\ wallets' = ws1
                    /\ history' = o.history
                    /\ granted' = o.granted
                    /\ ev' = [Ev("handleVerify", u, walletAddress, "verified", o.decisions)
                               EXCEPT !.signed = signature,
                                 !.recovered = VerifyMessage(message, signature)]
       /\ UNCHANGED <<now, issued, role_configs, balance, isRunning, startupArmed, job, runs, rv, rw>>

\* api.js verifyWallet (POST from the web page): the identity is the OAuth
\* session's, the message is the fixed one, the wallet is bound; no role is
\* looked at.
VerifyWallet(U, A, S) ==
  \E discordUser \in U \cup {Null}, walletAddress \in A \cup {Null}, signature \in S :
    LET message == ApiGetVerificationMessage
        isValid == VerifySignature(message, signature, walletAddress)
    IN /\ IF discordUser = Null
          THEN /\ ev' = Ev("verifyWallet", Null, Null, "not_authenticated", <<>>)
               /\ UNCHANGED <<users, wallets>>
          ELSE IF walletAddress = Null
          THEN /\ ev' = Ev("verifyWallet", discordUser, Null, "missing_parameters", <<>>)
               /\ UNCHANGED <<users, wallets>>
          ELSE IF ~IsAddressFormat(walletAddress)
          THEN /\ ev' = Ev("verifyWallet", discordUser, walletAddress, "invalid_address", <<>>)
               /\ UNCHANGED <<users, wallets>>
          ELSE IF ~isValid
          THEN /\ ev' = [Ev("verifyWallet", discordUser, walletAddress,
                            "invalid_signature", <<>>)
                          EXCEPT !.signed = signature,
                                 !.recovered = VerifyMessage(message, signature)]
               /\ UNCHANGED <<users, wallets>>
          ELSE /\ users' = EnsureUser(users, discordUser)
               /\ wallets' = AddWallet(wallets, discordUser, walletAddress)
               /\ ev' = [Ev("verifyWallet", discordUser, walletAddress, "bound", <<>>)
                          EXCEPT !.signed = signature,
                                 !.recovered = VerifyMessage(message, signature)]
       /\ UNCHANGED <<now, issued, role_configs, history, balance, granted, isRunning,
                      startupArmed, job, runs, rv, rw>>

\* POST /api/verify-wallet of the web interface over the document store, from
\* the request to its response.  db.addWallet is called with isPrimary left at
\* its default and without await, so the response does not depend on the
\* write.  db.getRoleConfigs is not awaited either: what the rule loop makes
\* of its return value is left open (GuildPasses).  db.logVerification and
\* db.updateLastChecked are taken as landing within the step.
VerifyWalletMongo(U, A, S, W, G) ==
  \E discordUser \in U \cup {Null}, walletAddress \in A \cup {Null}, signature \in S :
    LET message == ApiGetVerificationMessage
        isValid == VerifySignature(message, signature, walletAddress)
        roleConfigs == GetRoleConfigs(Guild)
    IN /\ IF discordUser = Null
          THEN /\ ev' = Ev("verifyWallet", Null, Null, "not_authenticated", <<>>)
               /\ UNCHANGED <<users, wallets, history, granted>>
          ELSE IF walletAddress = Null
          THEN /\ ev' = Ev("verifyWallet", discordUser, Null, "missing_parameters", <<>>)
               /\ UNCHANGED <<users, wallets, history, granted>>
          ELSE IF ~IsAddressFormat(walletAddress)
          THEN /\ ev' = Ev("verifyWallet", discordUser, walletAddress, "invalid_address", <<>>)
               /\ UNCHANGED <<users, wallets, history, granted>>
          ELSE IF ~isValid
          THEN /\ ev' = [Ev("verifyWallet", discordUser, walletAddress,
                            "invalid_signature", <<>>)
                          EXCEPT !.signed = signature,
                                 !.recovered = VerifyMessage(message, signature)]
               /\ UNCHANGED <<users, wallets, history, granted>>
          ELSE \E write \in W, guild \in G :
               \E es \in IF guild = "loop"
                         THEN [1..Len(roleConfigs) -> EnvFor({ToLowerCase(walletAddress)})]
                         ELSE {<<>>} :
                 LET us1 == IF write = "persisted"
                            THEN EnsureUser(users, discordUser) ELSE users
                     ws1 == IF write = "persisted"
                            THEN AddWalletMongo(wallets, discordUser, walletAddress, FALSE)
                            ELSE wallets
                     o == IF guild = "loop"
                          THEN WebVerifyLoop(roleConfigs, 1, granted, history, discordUser,
                                             walletAddress, es, <<>>)
                          ELSE [granted |-> granted, history |-> history,
                                decisions |-> <<>>]
                 IN /\ Len(o.history) <= MaxHistory
                    /\ users' = IF guild = "loop" /\ Len(roleConfigs) > 0
                                THEN UpdateLastChecked(us1, discordUser) ELSE us1
                    /\ wallets' = ws1
                    /\ history' = o.history
                    /\ granted' = o.granted
                    /\ ev' = [Ev("verifyWallet", discordUser, walletAddress,
                                 VerifyWalletResponse(write), o.decisions)
                               EXCEPT !.signed = signature,
                                      !.recovered = VerifyMessage(message, signature)]
                             @@ [write |-> write]
       /\ UNCHANGED <<now, issued, role_configs, balance, isRunning,
                      startupArmed, job, runs, rv, rw>>

\* The call of checkERC20BalanceWithStaking that is waiting in ev: its result
\* for the token contract, staking contract and threshold it was given.
CheckStaking ==
  /\ ev.op = "checkERC20BalanceWithStaking"
  /\ ev.outcome = "pending"
  /\ ev' = [ev EXCEPT !.outcome =
               CheckERC20BalanceWithStaking(ev.token, ev.staking, ev.minBalance)]
  /\ UNCHANGED <<now, issued, users, wallets, role_configs, history, balance,
                 granted, isRunning, startupArmed, job, runs, rv, rw>>

\* The call of verifyTokenRequirements that is waiting in ev: its result for
\* the rule and the contract answers it was given.
VerifyTokenCall ==
  /\ ev.op = "verifyTokenRequirements"
  /\ ev.outcome = "pending"
  /\ ev' = [ev EXCEPT !.outcome = VerifyTokenRequirementsCall(ev.roleConfig, ev.chain),
                      !.staked = StakedCall(ev.roleConfig, ev.chain)]
  /\ UNCHANGED <<now, issued, users, wallets, role_configs, history, balance,
                 granted, isRunning, startupArmed, job, runs, rv, rw>>

\* What a /addrole command was given and how it was answered.
AddRoleEv(outcome, contractAddress, stakingContract) ==
  Ev("handleAddRole", Null, Null, outcome, <<>>)
    @@ [contract |-> contractAddress, staking |-> stakingContract]

\* handleAddRole without its two address tests.
HandleAddRoleUnchecked(R, C, S, T) ==
  \E role \in R, contractAddress \in C, stakingContract \in S,
     tokenType \in {"ERC20", "ERC721", "ERC1155"}, minBalance \in T :
    /\ Len(role_configs) < MaxRules
    /\ role_configs' = AddRoleConfig(role_configs, Guild, role, contractAddress,
                                     tokenType, minBalance, stakingContract)
    /\ ev' = AddRoleEv("added", contractAddress, stakingContract)
    /\ UNCHANGED <<now, issued, users, wallets, history, balance, granted, isRunning,
                   startupArmed, job, runs, rv, rw>>

\* handleAddRole: both addresses are tested against the address pattern, then
\* the rule is inserted with the type and the minbalance text as typed.  The
\* insert may throw (stakingContract?.toLowerCase() is undefined for an absent
\* option, which the driver may refuse to bind); the handler then replies with
\* an error and nothing is stored.
HandleAddRole(R, C, S, T) ==
  \E role \in R, contractAddress \in C, stakingContract \in S,
     tokenType \in {"ERC20", "ERC721", "ERC1155"}, minBalance \in T,
     insertOk \in BOOLEAN :
    /\ Len(role_configs) < MaxRules
    /\ stakingContract # Null => insertOk
    /\ IF ~IsAddressFormat(contractAddress)
       THEN /\ ev' = AddRoleEv("invalid_contract", contractAddress, stakingContract)
            /\ UNCHANGED role_configs
       ELSE IF stakingContract # Null /\ ~IsAddressFormat(stakingContract)
       THEN /\ ev' = AddRoleEv("invalid_staking", contractAddress, stakingContract)
            /\ UNCHANGED role_configs
       ELSE IF ~insertOk
       THEN /\ ev' = AddRoleEv("error", contractAddress, stakingContract)
            /\ UNCHANGED role_configs
       ELSE /\ role_configs' = AddRoleConfig(role_configs, Guild, role, contractAddress,
                                             tokenType, minBalance, stakingContract)
            /\ ev' = AddRoleEv("added", contractAddress, stakingContract)
    /\ UNCHANGED <<now, issued, users, wallets, history, balance, granted, isRunning,
                   startupArmed, job, runs, rv, rw>>

\* handleRemoveWallet without the last-wallet test.
NeverLastWallet(ws) == FALSE

\* if (wallets.length === 1) of handleRemoveWallet.
IsLastWallet(ws) == Len(ws) = 1

\* handleRemoveWallet up to its await interaction.deferReply(), for a command
\* that arrives while the interactions of the slots outside K are idle or
\* suspended and the lowest free slot is in K.
HandleRemoveWalletCheck(U, A, K) ==
  \E u \in U, walletAddress \in A, k \in K :
    /\ rw[k].pc = "idle"
    /\ \A j \in K : j < k => rw[j].pc # "idle"
    /\ \E ws \in GetWallets(wallets, u) :
         LET walletExists ==
               \E i \in DOMAIN ws :
                 ToLowerCase(ws[i].wallet_address) = ToLowerCase(walletAddress)
         IN IF ~IsAddressFormat(walletAddress)
            THEN /\ ev' = Ev("handleRemoveWallet", u, walletAddress, "invalid_address", <<>>)
                 /\ rw' = rw
            ELSE IF ~walletExists
            THEN /\ ev' = Ev("handleRemoveWallet", u, walletAddress, "not_linked", <<>>)
                 /\ rw' = rw
            ELSE IF IsLastWallet(ws)
            THEN /\ ev' = Ev("handleRemoveWallet", u, walletAddress, "last_wallet", <<>>)
                 /\ rw' = rw
            ELSE /\ ev' = Ev("handleRemoveWallet", u, walletAddress, "deferred", <<>>)
                 /\ rw' = [rw EXCEPT ![k] =
                            [pc |-> "deferred", user |-> u, wallet |-> walletAddress,
                             count |-> Len(ws)]]
    /\ UNCHANGED <<now, issued, users, wallets, role_configs, history, balance, granted,
                   isRunning, startupArmed, job, runs, rv>>

\* for (const config of roleConfigs) of handleRemoveWallet.
RECURSIVE RemoveWalletLoop(_, _, _, _, _, _, _, _)
RemoveWalletLoop(cfgs, i, g, h, d, remainingWallets, es, decs) ==
  IF i > Len(cfgs) THEN [granted |-> g, history |-> h, decisions |-> decs]
  ELSE LET o == RemoveWalletRule(g, h, d, remainingWallets, cfgs[i], es[i])
       IN RemoveWalletLoop(cfgs, i + 1, o.granted, o.history, d, remainingWallets, es,
                           Append(decs, o.decision))

\* handleRemoveWallet after deferReply: the delete and the re-check of the rules.
HandleRemoveWalletApply ==
  \E k \in UnlinkSlots :
    /\ rw[k].pc = "deferred"
    /\ LET ws1 == RemoveWallet(wallets, rw[k].user, rw[k].wallet)
           roleConfigs == GetRoleConfigs(Guild)
       IN \E remainingWallets \in GetWallets(ws1, rw[k].user) :
          \E es \in [1..Len(roleConfigs) -> EnvFor(AddressesOf(remainingWallets))] :
            LET o == RemoveWalletLoop(roleConfigs, 1, granted, history, rw[k].user,
                                      remainingWallets, es, <<>>)
            IN /\ Len(o.history) <= MaxHistory
               /\ wallets' = ws1
               /\ history' = o.history
               /\ granted' = o.granted
               /\ ev' = Ev("handleRemoveWallet", rw[k].user, rw[k].wallet, "removed",
                           o.decisions)
    /\ rw' = [rw EXCEPT ![k] = IdleRw]
    /\ UNCHANGED <<now, issued, users, role_configs, balance, isRunning, startupArmed, job, runs, rv>>

\* ------------------------------------------------------------------ handleReverify
\* The loop of handleReverify moves to the next user, or the handler replies.
ReverifyAdvance(r) ==
  IF r.ui < Len(r.users)
  THEN [r EXCEPT !.pc = "fetch", !.ui = r.ui + 1, !.ci = 0, !.wallets = <<>>]
  ELSE IdleRv

\* handleReverify from deferReply to the first member fetch: the user list and
\* the guild's rules are read once.
ReverifyStart(U) ==
  \E targetUser \in U \cup {Null} :
    /\ rv.pc = "idle"
    /\ \E usersToCheck \in
           IF targetUser = Null THEN GetAllUsers
           ELSE {GetUser(targetUser)} :
         LET roleConfigs == GetRoleConfigs(Guild)
         IN IF Len(usersToCheck) = 0
            THEN /\ rv' = rv
                 /\ ev' = Ev("handleReverify", targetUser, Null, "no_users", <<>>)
            ELSE IF Len(roleConfigs) = 0
            THEN /\ rv' = rv
                 /\ ev' = Ev("handleReverify", targetUser, Null, "no_roles", <<>>)
            ELSE /\ rv' = [pc |-> "fetch", full |-> (targetUser = Null),
                           users |-> usersToCheck, ui |-> 1, cfgs |-> roleConfigs,
                           ci |-> 0, wallets |-> <<>>]
                 /\ ev' = Ev("handleReverify", targetUser, Null, "started", <<>>)
    /\ UNCHANGED <<now, issued, users, wallets, role_configs, history, balance, granted,
                   isRunning, startupArmed, job, runs, rw>>

\* guild.members.fetch resolves; db.getWallets for the user.
ReverifyFetch ==
  \E isMember \in BOOLEAN :
    /\ rv.pc = "fetch"
    /\ LET d == rv.users[rv.ui].discord_id
       IN \E userWallets \in GetWallets(wallets, d) :
            /\ rv' = IF ~isMember \/ Len(userWallets) = 0 THEN ReverifyAdvance(rv)
                     ELSE [rv EXCEPT !.pc = "rule", !.ci = 1, !.wallets = userWallets]
            /\ ev' = Ev("reverifyFetch", d, Null,
                        IF ~isMember THEN "not_member"
                        ELSE IF Len(userWallets) = 0 THEN "no_wallets" ELSE "member",
                        <<>>)
    /\ UNCHANGED <<now, issued, users, wallets, role_configs, history, balance, granted,
                   isRunning, startupArmed, job, runs, rw>>

\* One iteration of for (const config of roleConfigs) in handleReverify; after
\* the last rule, db.updateLastChecked and on to the next user.
ReverifyRuleStep ==
  \E e \in EnvFor(AddressesOf(rv.wallets)) :
    /\ rv.pc = "rule"
    /\ LET d == rv.users[rv.ui].discord_id
           o == ReverifyRule(granted, history, d, rv.wallets, rv.cfgs[rv.ci], e)
           last == rv.ci = Len(rv.cfgs)
       IN /\ Len(o.history) <= MaxHistory
          /\ granted' = o.granted
          /\ history' = o.history
          /\ users' = IF last THEN UpdateLastChecked(users, d) ELSE users
          /\ rv' = IF last THEN ReverifyAdvance(rv) ELSE [rv EXCEPT !.ci = rv.ci + 1]
          /\ ev' = Ev("reverifyRule", d, Null, "", <<o.decision>>)
    /\ UNCHANGED <<now, issued, wallets, role_configs, balance, isRunning, startupArmed, job,
                   runs, rw>>

\* ------------------------------------------------------------------ VerificationService
\* runVerification without its guard.
NoGuard == FALSE

\* if (this.isRunning) of runVerification.
AlreadyRunning == isRunning

LiveRuns == {s \in Slots : runs[s].pc # "idle"}

\* A new invocation takes the lowest free slot.
FreeSlot == CHOOSE s \in Slots : runs[s].pc = "idle" /\ \A t \in Slots : t < s => runs[t].pc # "idle"

\* A run that leaves the flag as it set it.
FlagLeftSet == TRUE

\* finally { this.isRunning = false } of runVerification.
FlagAfterRun == FALSE

\* runVerification up to its first await: skip when a run is in progress, else
\* set the flag and read the users; with no users, or when db.getAllUsers
\* throws (the outer catch logs it), the whole run ends here.
RunVerification(trigger) ==
  /\ \E s \in Slots : runs[s].pc = "idle"
  /\ IF AlreadyRunning
     THEN /\ ev' = Ev("runVerification", Null, Null, "skipped", <<>>)
          /\ UNCHANGED <<isRunning, runs>>
     ELSE \E all \in GetAllUsers, queryOk \in BOOLEAN :
            IF ~queryOk
            THEN /\ isRunning' = FlagAfterRun
                 /\ runs' = runs
                 /\ ev' = Ev("runVerification", Null, Null, "query_failed", <<>>)
            ELSE IF Len(all) = 0
            THEN /\ isRunning' = FlagAfterRun
                 /\ runs' = runs
                 /\ ev' = Ev("runVerification", Null, Null, "empty", <<>>)
            ELSE /\ isRunning' = TRUE
                 /\ runs' = [runs EXCEPT ![FreeSlot] =
                               [pc |-> "fetch", users |-> all, ui |-> 1, cfgs |-> <<>>,
                                ci |-> 0, errors |-> 0]]
                 /\ ev' = Ev("runVerification", Null, Null, "started", <<>>)
  /\ UNCHANGED <<now, issued, users, wallets, role_configs, history, balance, granted, rv, rw>>

\* The cron job fires.
CronTick ==
  /\ job = "scheduled"
  /\ RunVerification("cron")
  /\ UNCHANGED <<startupArmed, job>>

\* VerificationService.stop: this.job.stop() ends the cron schedule.  It sets
\* no flag that runVerification reads and does not clear the startup timer.
Stop ==
  /\ job' = "stopped"
  /\ ev' = Ev("stop", Null, Null, job, <<>>)
  /\ UNCHANGED <<now, issued, users, wallets, role_configs, history, balance, granted,
                 isRunning, startupArmed, runs, rv, rw>>

\* The setTimeout of start() fires, once.
StartupTimer ==
  /\ startupArmed
  /\ startupArmed' = FALSE
  /\ RunVerification("startup")
  /\ UNCHANGED job

\* verifyUser: guild.members.fetch resolves; non-members and guilds without
\* rules are skipped, else the rule loop starts.
RunFetch ==
  \E s \in Slots, isMember \in BOOLEAN :
    /\ runs[s].pc = "fetch"
    /\ LET roleConfigs == GetRoleConfigs(Guild)
           d == runs[s].users[runs[s].ui].discord_id
       IN /\ runs' = [runs EXCEPT ![s] =
                        IF ~isMember \/ Len(roleConfigs) = 0
                        THEN [@ EXCEPT !.pc = "sleep"]
                        ELSE [@ EXCEPT !.pc = "rule", !.cfgs = roleConfigs, !.ci = 1]]
          /\ ev' = Ev("runFetch", d, Null,
                      IF isMember THEN "member" ELSE "not_member", <<>>)
    /\ UNCHANGED <<now, issued, users, wallets, role_configs, history, balance, granted,
                   isRunning, startupArmed, job, rv, rw>>

\* One iteration of the rule loop of verifyUser: checkAndUpdateRole, its error
\* caught and logged; after the last rule, db.updateLastChecked.
RunRuleStep ==
  \E s \in Slots, e \in EnvInputs1 :
    /\ runs[s].pc = "rule"
    /\ LET r == runs[s]
           user == r.users[r.ui]
           o == VerifyUserRule(granted, history, user, r.cfgs[r.ci], e)
           last == r.ci = Len(r.cfgs)
       IN /\ Len(o.history) <= MaxHistory
          /\ granted' = o.granted
          /\ history' = o.history
          /\ users' = IF last THEN UpdateLastChecked(users, user.discord_id) ELSE users
          /\ runs' = [runs EXCEPT ![s] =
                        IF last
                        THEN [@ EXCEPT !.pc = "sleep",
                                       !.errors = RunErrors(@, o.thrown)]
                        ELSE [@ EXCEPT !.ci = r.ci + 1]]
          /\ ev' = Ev("checkAndUpdateRole", user.discord_id, Null, "", <<o.decision>>)
    /\ UNCHANGED <<now, issued, wallets, role_configs, balance, isRunning, startupArmed, job, rv, rw>>

\* The user loop that is also left when the identity just reconciled had a
\* decision that failed: the error ends the run.
RunDoneOnError(r) ==
  \/ r.ui >= Len(r.users)
  \/ /\ ev.op = "checkAndUpdateRole"
     /\ \E i \in DOMAIN ev.decisions :
          \/ ev.decisions[i].call \in {"add_fail", "remove_fail"}
          \/ \E k \in DOMAIN ev.decisions[i].reads : ev.decisions[i].reads[k].result = "err"

\* for (const user of users): the loop is over when the snapshot is exhausted.
RunDone(r) == r.ui >= Len(r.users)

\* await this.sleep(500) resolves: the next user, or the end of the run, where
\* the finally block clears the flag.
RunSleep ==
  \E s \in Slots :
    /\ runs[s].pc = "sleep"
    /\ IF ~RunDone(runs[s])
       THEN /\ runs' = [runs EXCEPT ![s] =
                          [@ EXCEPT !.pc = "fetch", !.ui = @ + 1, !.cfgs = <<>>, !.ci = 0]]
            /\ isRunning' = isRunning
            /\ ev' = Ev("runSleep", Null, Null, "next", <<>>)
       ELSE /\ runs' = [runs EXCEPT ![s] = IdleRun]
            /\ isRunning' = FlagAfterRun
            /\ ev' = Ev("runSleep", Null, Null, "complete", <<>>)
    /\ UNCHANGED <<now, issued, users, wallets, role_configs, history, balance, granted,
                   startupArmed, job, rv, rw>>

\* Spec: one user and one address of theirs; bindings, admin re-verification
\* and the scheduled runs interleave.  The clock stands still: the timestamp
\* columns steer no branch of the handlers.
Solo == {"u1"}
One == {"a1", "Aa1", "zz"}
\* The signatures tried in Spec: by the key of a1 or a2 over the message of
\* this moment or of another one, and one string that does not parse.
Proofs ==
  {sg \in Signatures :
     /\ sg.msg.id \in Solo
     /\ sg.msg.ts \in {now, MaxTime}
     /\ sg.signer \in {"a1", "a2", Malformed}
     /\ sg.signer \in {"a2", Malformed} => sg.msg.ts = now}

Next ==
  \/ LedgerChange(One)
  \/ HandleVerify(Solo, One, Proofs)
  \/ ReverifyStart(Solo)
  \/ ReverifyFetch
  \/ ReverifyRuleStep
  \/ CronTick
  \/ StartupTimer
  \/ RunFetch
  \/ RunRuleStep
  \/ RunSleep

Spec == Init /\ [][Next]_vars

\* SpecWallets: the user has bound three wallets while none held a token;
\* transfers, unlinks and admin re-verification interleave.
InitWallets ==
  /\ now = 0
  /\ users = ("u1" :> [created_at |-> 0, last_checked |-> 0])
  /\ wallets = {[discord_id |-> "u1", wallet_address |-> a, verified_at |-> 0,
                 is_primary |-> IF a = "a1" THEN 1 ELSE 0] : a \in Addrs}
  /\ role_configs = <<[id |-> 1, guild_id |-> Guild, role_id |-> "r1",
                       token_type |-> "ERC721", min_balance |-> 1]>>
  /\ history = <<>>
  /\ balance = [a \in Addrs |-> 0]
  /\ granted = {}
  /\ isRunning = FALSE
  /\ startupArmed = FALSE
  /\ job = "scheduled"
  /\ runs = [s \in Slots |-> IdleRun]
  /\ rv = IdleRv
  /\ rw = [k \in UnlinkSlots |-> IdleRw]
  /\ issued = {}
  /\ ev = Ev("init", Null, Null, "", <<>>)

NextWallets ==
  \/ LedgerChange(Addrs)
  \/ HandleRemoveWalletCheck(Solo, Addrs, {1})
  \/ HandleRemoveWalletApply
  \/ ReverifyStart(Solo)
  \/ ReverifyFetch
  \/ ReverifyRuleStep

SpecWallets == InitWallets /\ [][NextWallets]_vars

\* SpecProof: two identities and the key of a1; time passes, messages are
\* shown, and proofs are submitted by slash command and through the web page.
\* No token is held, so no role changes hands.
OwnProofs == {sg \in Signatures : sg.signer = "a1"}

NextProof ==
  \/ Tick
  \/ HandleGetMessage(Solo)
  \/ HandleVerify(Users, {"a1"}, OwnProofs)
  \/ VerifyWallet(Users, {"a1"}, OwnProofs)

SpecProof == Init /\ [][NextProof]_vars

\* SpecMongo: the web endpoint over the document store, one identity, proofs
\* over the web interface's message by the keys of a1, a2 and a3.
ApiProofs == {sg \in Signatures : sg.msg = ApiMessage /\ sg.signer # Malformed}

NextMongo ==
  \/ Tick
  \/ VerifyWalletMongo(Solo, {"a1", "Aa1", "a2", "a3"}, ApiProofs, {"persisted"}, {"throws"})

SpecMongo == Init /\ [][NextMongo]_vars

\* SpecStaking: the staking check alone. Each initial state holds one call:
\* what the token contract and the staking contract answer, and the threshold.
InitStaking ==
  /\ now = 0
  /\ users = << >>
  /\ wallets = {}
  /\ role_configs = <<>>
  /\ history = <<>>
  /\ balance = [a \in Addrs |-> 0]
  /\ granted = {}
  /\ isRunning = FALSE
  /\ startupArmed = FALSE
  /\ job = "scheduled"
  /\ runs = [s \in Slots |-> IdleRun]
  /\ rv = IdleRv
  /\ rw = [k \in UnlinkSlots |-> IdleRw]
  /\ issued = {}
  /\ \E spot \in Reads, staked \in Reads,
        fallback \in {r \in Reads : r.value \in {0, MaxRaw}},
        decimals \in {r \in Reads : r.value <= MaxDecimals},
        minBalance \in DecimalStrings :
       ev = [op |-> "checkERC20BalanceWithStaking",
             token |-> [balanceOf |-> spot, decimals |-> decimals],
             staking |-> [stakedBalanceOf |-> staked, balanceOf |-> fallback],
             minBalance |-> minBalance, outcome |-> "pending"]

NextStaking == CheckStaking

SpecStaking == InitStaking /\ [][NextStaking]_vars

\* SpecRun: two identities, each with one bound wallet, and the scheduled
\* verification alone.
InitRun ==
  /\ now = 0
  /\ users = [d \in Users |-> [created_at |-> 0, last_checked |-> -1]]
  /\ wallets = {[discord_id |-> "u1", wallet_address |-> "a1", verified_at |-> 0,
                 is_primary |-> 1],
                [discord_id |-> "u2", wallet_address |-> "a2", verified_at |-> 0,
                 is_primary |-> 1]}
  /\ role_configs = <<[id |-> 1, guild_id |-> Guild, role_id |-> "r1",
                       token_type |-> "ERC721", min_balance |-> 1]>>
  /\ history = <<>>
  /\ balance = [a \in Addrs |-> 0]
  /\ granted = {}
  /\ isRunning = FALSE
  /\ startupArmed = TRUE
  /\ job = "scheduled"
  /\ runs = [s \in Slots |-> IdleRun]
  /\ rv = IdleRv
  /\ rw = [k \in UnlinkSlots |-> IdleRw]
  /\ issued = {}
  /\ ev = Ev("init", Null, Null, "", <<>>)

NextRun ==
  \/ CronTick
  \/ StartupTimer
  \/ RunFetch
  \/ RunRuleStep
  \/ RunSleep

SpecRun == InitRun /\ [][NextRun]_vars

\* SpecStop: the two identities of SpecRun after the startup run is over;
\* cron starts the runs and stop() is called at any moment.  A run that is
\* live after stop() was started before it.
InitStop ==
  /\ now = 0
  /\ users = [d \in Users |-> [created_at |-> 0, last_checked |-> -1]]
  /\ wallets = {[discord_id |-> "u1", wallet_address |-> "a1", verified_at |-> 0,
                 is_primary |-> 1],
                [discord_id |-> "u2", wallet_address |-> "a2", verified_at |-> 0,
                 is_primary |-> 1]}
  /\ role_configs = <<[id |-> 1, guild_id |-> Guild, role_id |-> "r1",
                       token_type |-> "ERC721", min_balance |-> 1]>>
  /\ history = <<>>
  /\ balance = [a \in Addrs |-> 0]
  /\ granted = {}
  /\ isRunning = FALSE
  /\ startupArmed = FALSE
  /\ job = "scheduled"
  /\ runs = [s \in Slots |-> IdleRun]
  /\ rv = IdleRv
  /\ rw = [k \in UnlinkSlots |-> IdleRw]
  /\ issued = {}
  /\ ev = Ev("init", Null, Null, "", <<>>)

NextStop ==
  \/ Stop
  \/ CronTick
  \/ RunFetch
  \/ RunRuleStep
  \/ RunSleep

SpecStop == InitStop /\ [][NextStop]_vars

\* SpecRules: one identity whose wallet a1 was bound through the web page, and
\* two rules of the guild on the same contract; admin re-verification and the
\* scheduled runs interleave with transfers.
InitRules ==
  /\ now = 0
  /\ users = ("u1" :> [created_at |-> 0, last_checked |-> -1])
  /\ wallets = {[discord_id |-> "u1", wallet_address |-> "a1", verified_at |-> 0,
                 is_primary |-> 1]}
  /\ role_configs = <<[id |-> 1, guild_id |-> Guild, role_id |-> "r1",
                       token_type |-> "ERC721", min_balance |-> 1],
                      [id |-> 2, guild_id |-> Guild, role_id |-> "r2",
                       token_type |-> "ERC721", min_balance |-> 1]>>
  /\ history = <<>>
  /\ balance = [a \in Addrs |-> 0]
  /\ granted = {}
  /\ isRunning = FALSE
  /\ startupArmed = TRUE
  /\ job = "scheduled"
  /\ runs = [s \in Slots |-> IdleRun]
  /\ rv = IdleRv
  /\ rw = [k \in UnlinkSlots |-> IdleRw]
  /\ issued = {}
  /\ ev = Ev("init", Null, Null, "", <<>>)

NextRules ==
  \/ LedgerChange({"a1"})
  \/ ReverifyStart(Solo)
  \/ ReverifyFetch
  \/ ReverifyRuleStep
  \/ CronTick
  \/ StartupTimer
  \/ RunFetch
  \/ RunRuleStep
  \/ RunSleep

SpecRules == InitRules /\ [][NextRules]_vars

\* SpecUnlink: two identities, each bound to a1 and a2 (the one's primary is
\* the other's second wallet); unlink commands in any letter case, for bound
\* and unbound addresses.
InitUnlink ==
  /\ now = 0
  /\ users = [d \in Users |-> [created_at |-> 0, last_checked |-> 0]]
  /\ wallets = {[discord_id |-> d, wallet_address |-> a, verified_at |-> 0,
                 is_primary |-> IF (d = "u1") = (a = "a1") THEN 1 ELSE 0] :
                   d \in Users, a \in {"a1", "a2"}}
  /\ role_configs = <<[id |-> 1, guild_id |-> Guild, role_id |-> "r1",
                       token_type |-> "ERC721", min_balance |-> 1]>>
  /\ history = <<>>
  /\ balance = [a \in Addrs |-> 0]
  /\ granted = {}
  /\ isRunning = FALSE
  /\ startupArmed = FALSE
  /\ job = "scheduled"
  /\ runs = [s \in Slots |-> IdleRun]
  /\ rv = IdleRv
  /\ rw = [k \in UnlinkSlots |-> IdleRw]
  /\ issued = {}
  /\ ev = Ev("init", Null, Null, "", <<>>)

NextUnlink ==
  \/ HandleRemoveWalletCheck(Users, {"a1", "A1", "a2", "a3", "zz"}, {1})
  \/ HandleRemoveWalletApply

SpecUnlink == InitUnlink /\ [][NextUnlink]_vars

\* SpecRace: u1 with a1 (primary) and a2 bound and no token held; unlink
\* commands of u1 arrive while earlier ones are suspended at deferReply.
InitRace ==
  /\ now = 0
  /\ users = ("u1" :> [created_at |-> 0, last_checked |-> 0])
  /\ wallets = {[discord_id |-> "u1", wallet_address |-> a, verified_at |-> 0,
                 is_primary |-> IF a = "a1" THEN 1 ELSE 0] : a \in {"a1", "a2"}}
  /\ role_configs = <<[id |-> 1, guild_id |-> Guild, role_id |-> "r1",
                       token_type |-> "ERC721", min_balance |-> 1]>>
  /\ history = <<>>
  /\ balance = [a \in Addrs |-> 0]
  /\ granted = {}
  /\ isRunning = FALSE
  /\ startupArmed = FALSE
  /\ job = "scheduled"
  /\ runs = [s \in Slots |-> IdleRun]
  /\ rv = IdleRv
  /\ rw = [k \in UnlinkSlots |-> IdleRw]
  /\ issued = {}
  /\ ev = Ev("init", Null, Null, "", <<>>)

NextRace ==
  \/ HandleRemoveWalletCheck(Solo, {"a1", "A1", "a2", "a3"}, UnlinkSlots)
  \/ HandleRemoveWalletApply

SpecRace == InitRace /\ [][NextRace]_vars

\* SpecOrder: u1 with three wallets bound at any times, any one of them (or,
\* after an unlink of the primary, none) flagged primary, and any balances;
\* /reverify reconciles u1.
InitOrder ==
  /\ now = 0
  /\ users = ("u1" :> [created_at |-> 0, last_checked |-> 0])
  /\ \E t \in [Addrs -> 0..MaxTime], p \in Addrs \cup {Null} :
       wallets = {[discord_id |-> "u1", wallet_address |-> a, verified_at |-> t[a],
                   is_primary |-> IF a = p THEN 1 ELSE 0] : a \in Addrs}
  /\ role_configs = <<[id |-> 1, guild_id |-> Guild, role_id |-> "r1",
                       token_type |-> "ERC721", min_balance |-> 1]>>
  /\ history = <<>>
  /\ balance \in [Addrs -> {0, MaxBal}]
  /\ granted = {}
  /\ isRunning = FALSE
  /\ startupArmed = FALSE
  /\ job = "scheduled"
  /\ runs = [s \in Slots |-> IdleRun]
  /\ rv = IdleRv
  /\ rw = [k \in UnlinkSlots |-> IdleRw]
  /\ issued = {}
  /\ ev = Ev("init", Null, Null, "", <<>>)

NextOrder ==
  \/ ReverifyStart(Solo)
  \/ ReverifyFetch
  \/ ReverifyRuleStep

SpecOrder == InitOrder /\ [][NextOrder]_vars

\* SpecRevoke: u1 with a1 (primary) and a2 bound, any balances on the two, and
\* two rules of which u1 holds any of the roles; u1 unlinks a wallet.
InitRevoke ==
  /\ now = 0
  /\ users = ("u1" :> [created_at |-> 0, last_checked |-> 0])
  /\ wallets = {[discord_id |-> "u1", wallet_address |-> a, verified_at |-> 0,
                 is_primary |-> IF a = "a1" THEN 1 ELSE 0] : a \in {"a1", "a2"}}
  /\ role_configs = <<[id |-> 1, guild_id |-> Guild, role_id |-> "r1",
                       token_type |-> "ERC721", min_balance |-> 1],
                      [id |-> 2, guild_id |-> Guild, role_id |-> "r2",
                       token_type |-> "ERC721", min_balance |-> 1]>>
  /\ history = <<>>
  /\ balance \in {b \in [Addrs -> 0..MaxBal] : b["a3"] = 0}
  /\ granted \in SUBSET {<<"u1", "r1">>, <<"u1", "r2">>}
  /\ isRunning = FALSE
  /\ startupArmed = FALSE
  /\ job = "scheduled"
  /\ runs = [s \in Slots |-> IdleRun]
  /\ rv = IdleRv
  /\ rw = [k \in UnlinkSlots |-> IdleRw]
  /\ issued = {}
  /\ ev = Ev("init", Null, Null, "", <<>>)

NextRevoke ==
  \/ HandleRemoveWalletCheck(Solo, {"a1", "a2", "A2"}, {1})
  \/ HandleRemoveWalletApply

SpecRevoke == InitRevoke /\ [][NextRevoke]_vars

\* SpecMulti: the ERC1155 check alone. Each initial state holds one call: the
\* rule's threshold text and what the contract holds for the wallet.
InitMulti ==
  /\ now = 0
  /\ users = << >>
  /\ wallets = {}
  /\ role_configs = <<>>
  /\ history = <<>>
  /\ balance = [a \in Addrs |-> 0]
  /\ granted = {}
  /\ isRunning = FALSE
  /\ startupArmed = FALSE
  /\ job = "scheduled"
  /\ runs = [s \in Slots |-> IdleRun]
  /\ rv = IdleRv
  /\ rw = [k \in UnlinkSlots |-> IdleRw]
  /\ issued = {}
  /\ \E text \in Texts, ok \in BOOLEAN, counts \in [{1, 2} -> 0..MaxBal] :
       ev = [op |-> "verifyTokenRequirements",
             roleConfig |-> [token_type |-> "ERC1155", min_balance |-> text,
                             staking_contract |-> Null],
             chain |-> [token |-> [balanceOf |-> RejectedCall, decimals |-> RejectedCall],
                        staking |-> [stakedBalanceOf |-> RejectedCall,
                                     balanceOf |-> RejectedCall],
                        multi |-> [ok |-> ok, counts |-> counts]],
             outcome |-> "pending", staked |-> NotCalled]

NextMulti == VerifyTokenCall

SpecMulti == InitMulti /\ [][NextMulti]_vars

\* SpecLedger: verifyTokenRequirements alone.  Each initial state holds one
\* call: a rule of any kind, with or without a staking contract, and what each
\* contract call answers.
TokenTypes == {"ERC20", "ERC721", "ERC1155", "ERC777"}
Thresholds == {<<"1">>, <<"2">>, <<"1", ":", "1">>, <<"0", ".", "2">>}

InitLedger ==
  /\ now = 0
  /\ users = << >>
  /\ wallets = {}
  /\ role_configs = <<>>
  /\ history = <<>>
  /\ balance = [a \in Addrs |-> 0]
  /\ granted = {}
  /\ isRunning = FALSE
  /\ startupArmed = FALSE
  /\ job = "scheduled"
  /\ runs = [s \in Slots |-> IdleRun]
  /\ rv = IdleRv
  /\ rw = [k \in UnlinkSlots |-> IdleRw]
  /\ issued = {}
  /\ \E kind \in TokenTypes, text \in Thresholds, stakingContract \in {Null, "s1"},
        spot \in Reads, decimals \in {r \in Reads : r.value <= MaxDecimals},
        staked \in {r \in Reads : r.value \in {0, 1, MaxRaw}},
        fallback \in {r \in Reads : r.value \in {0, MaxRaw}},
        ok \in BOOLEAN, counts \in [{1, 2} -> {0, MaxBal}] :
       \* contracts the rule's kind does not call are left unanswered
       /\ kind # "ERC20" => decimals = RejectedCall /\ stakingContract = Null
       /\ stakingContract = Null => staked = RejectedCall /\ fallback = RejectedCall
       /\ kind \in {"ERC1155", "ERC777"} => spot = RejectedCall
       /\ kind # "ERC1155" => ~ok /\ counts = [i \in {1, 2} |-> 0]
       /\ ev = [op |-> "verifyTokenRequirements",
                roleConfig |-> [token_type |-> kind, min_balance |-> text,
                                staking_contract |-> stakingContract],
                chain |-> [token |-> [balanceOf |-> spot, decimals |-> decimals],
                           staking |-> [stakedBalanceOf |-> staked, balanceOf |-> fallback],
                           multi |-> [ok |-> ok, counts |-> counts]],
                outcome |-> "pending", staked |-> NotCalled]

NextLedger == VerifyTokenCall

SpecLedger == InitLedger /\ [][NextLedger]_vars


\* SpecAddRole: an empty rule table and an admin who runs /addrole.
InitAddRole ==
  /\ now = 0
  /\ users = << >>
  /\ wallets = {}
  /\ role_configs = <<>>
  /\ history = <<>>
  /\ balance = [a \in Addrs |-> 0]
  /\ granted = {}
  /\ isRunning = FALSE
  /\ startupArmed = FALSE
  /\ job = "scheduled"
  /\ runs = [s \in Slots |-> IdleRun]
  /\ rv = IdleRv
  /\ rw = [k \in UnlinkSlots |-> IdleRw]
  /\ issued = {}
  /\ ev = Ev("init", Null, Null, "", <<>>)

NextAddRole ==
  HandleAddRole({"r1"}, {"A1", "zz"}, {Null, "A2", "zz"}, Thresholds \cup {<<"x">>})

SpecAddRole == InitAddRole /\ [][NextAddRole]_vars

\* SpecAudit: u1 with a1 bound and one rule; the clock runs, the ledger
\* changes, and an admin runs /reverify, so that grants and revokes of the one
\* role are logged one after the other.
InitAudit ==
  /\ now = 0
  /\ users = ("u1" :> [created_at |-> 0, last_checked |-> 0])
  /\ wallets = {[discord_id |-> "u1", wallet_address |-> "a1", verified_at |-> 0,
                 is_primary |-> 1]}
  /\ role_configs = <<[id |-> 1, guild_id |-> Guild, role_id |-> "r1",
                       token_type |-> "ERC721", min_balance |-> 1]>>
  /\ history = <<>>
  /\ balance = [a \in Addrs |-> 0]
  /\ granted = {}
  /\ isRunning = FALSE
  /\ startupArmed = FALSE
  /\ job = "scheduled"
  /\ runs = [s \in Slots |-> IdleRun]
  /\ rv = IdleRv
  /\ rw = [k \in UnlinkSlots |-> IdleRw]
  /\ issued = {}
  /\ ev = Ev("init", Null, Null, "", <<>>)

NextAudit ==
  \/ Tick
  \/ LedgerChange({"a1"})
  \/ ReverifyStart(Solo)
  \/ ReverifyFetch
  \/ ReverifyRuleStep

SpecAudit == InitAudit /\ [][NextAudit]_vars

\* SpecBind: one identity binds a1 and a2, typing the address in lower, upper
\* or mixed case, while time passes.
NextBind ==
  \/ Tick
  \/ HandleVerify(Solo, {"a1", "A1", "Aa1", "a2", "zz"}, Proofs)

SpecBind == Init /\ [][NextBind]_vars

\* SpecShutdown: the service has just been started (the startup timer is
\* armed) and stop() may be called at any moment.
NextShutdown ==
  \/ Stop
  \/ CronTick
  \/ StartupTimer
  \/ RunFetch
  \/ RunRuleStep
  \/ RunSleep

SpecShutdown == InitRun /\ [][NextShutdown]_vars

\* SpecKeep: one identity binds wallets by the command and by the web endpoint
\* while balances move, so that a bind can follow a grant.
KeepProofs ==
  {sg \in Signatures : /\ sg.signer \in {"a1", "a2"}
                       /\ sg.msg \in {GetVerificationMessage("u1"), ApiMessage}}

NextKeep ==
  \/ LedgerChange({"a1", "a2"})
  \/ HandleVerify(Solo, {"a1", "a2"}, KeepProofs)
  \/ VerifyWalletMongo(Solo, {"a1", "a2"}, KeepProofs, StoreWrites, GuildPasses)

SpecKeep == Init /\ [][NextKeep]_vars

\* SpecIdentity: one identity binds by the command and by both web endpoints,
\* unlinks, and is visited by the scheduled run, while time passes.
NextIdentity ==
  \/ Tick
  \/ HandleVerify(Solo, {"a1"}, KeepProofs)
  \/ VerifyWallet(Solo, {"a1"}, KeepProofs)
  \/ VerifyWalletMongo(Solo, {"a2"}, KeepProofs, StoreWrites, {"skip"})
  \/ HandleRemoveWalletCheck(Solo, {"a1"}, {1})
  \/ HandleRemoveWalletApply
  \/ CronTick
  \/ RunFetch
  \/ RunRuleStep
  \/ RunSleep

SpecIdentity == Init /\ [][NextIdentity]_vars

\* ------------------------------------------------------------------ properties
\* The rows the step just taken appended to verification_history.
Appended == SubSeq(history, ev.before.hlen + 1, Len(history))

\* The steps that reconcile one rule for one identity: a rule iteration of
\* handleReverify and a checkAndUpdateRole of the scheduled run.
ReconcileOps == {"reverifyRule", "checkAndUpdateRole"}

\* The steps that can call roles.add / roles.remove.
DecisionOps == ReconcileOps \cup {"handleVerify", "handleRemoveWallet"}

AddCalls == {"add_ok", "add_fail"}
RemoveCalls == {"remove_ok", "remove_fail"}

AllErr(reads) == reads # <<>> /\ \A k \in DOMAIN reads : reads[k].result = "err"
AllNo(reads) == reads # <<>> /\ \A k \in DOMAIN reads : reads[k].result = "no"

\* The rule of the guild that gates roleId.
RuleFor(roleId) ==
  CHOOSE c \in {role_configs[i] : i \in DOMAIN role_configs} : c.role_id = roleId

\* The wallets bound to d that hold enough for the rule of roleId.
Sufficient(d, roleId) ==
  {w \in WalletsOf(wallets, d) : balance[w.wallet_address] >= RuleFor(roleId).min_balance}

\* A users row as checkAndUpdateRole reads it, had the query selected a
\* wallet_address for it.
RowWithWallet(d, a) ==
  [discord_id |-> d, wallet_address |-> a, created_at |-> 0, last_checked |-> -1]

\* The grant states of the commanding users over the guild's gated roles.
Grants == SUBSET {<<d, role_configs[i].role_id>> : d \in {"u1"}, i \in DOMAIN role_configs}

\* The outcomes with which a proof was accepted and the wallet bound.
Accepted == {"verified", "no_roles", "bound"}

\* The message the handler of step op checks a proof of identity d against.
MessageFor(op, d) ==
  IF op = "verifyWallet" THEN ApiGetVerificationMessage ELSE GetVerificationMessage(d)

\* C1: in a reconciliation step (handleReverify's rule iteration or the
\* scheduled checkAndUpdateRole), when every ledger read made for the rule
\* failed, no roles.remove is called, no history row is written, and a role
\* the identity held is still held.
C1_ReadFailureNeverRevokes ==
  ev.op \in ReconcileOps =>
    \A i \in DOMAIN ev.decisions :
      LET dc == ev.decisions[i]
      IN AllErr(dc.reads) =>
           /\ dc.call \notin RemoveCalls
           /\ Appended = <<>>
           /\ (dc.had => HasRole(granted, ev.user, dc.role_id))

\* C2: at most one runVerification is in progress; a trigger that fires while
\* one is in progress starts no invocation, touches no role and no history
\* row, and leaves nothing behind that would run later; an invocation only
\* starts when none is in progress.
C2_SingleFlight ==
  /\ Cardinality(LiveRuns) <= 1
  /\ (isRunning <=> LiveRuns # {})
  /\ (ev.op = "runVerification" /\ ev.outcome = "skipped") =>
       /\ ev.before.live # {}
       /\ LiveRuns = ev.before.live
       /\ granted = ev.before.granted
       /\ Appended = <<>>
  /\ (ev.op = "runVerification" /\ ev.outcome = "started") => ev.before.live = {}

\* A trigger fired while a run was in progress and was skipped.
C2_Witness ==
  /\ ev.op = "runVerification"
  /\ ev.outcome = "skipped"
  /\ \E s \in LiveRuns : runs[s].pc = "rule"

\* C3: a full-population handleReverify (no target user) is never in progress
\* while a scheduled run is.
C3_GuardCoversReverify == ~(rv.pc # "idle" /\ rv.full /\ LiveRuns # {})

\* The decisions whose roles.add / roles.remove call went through.
OkCalls(decisions) == SelectSeq(decisions, LAMBDA dc : dc.call \in {"add_ok", "remove_ok"})

\* One rule's outcome o, computed from history h for identity d: a call that
\* went through added its one row, anything else added none.
RecordMatches(o, h, d) ==
  IF o.decision.call \in {"add_ok", "remove_ok"}
  THEN /\ Len(o.history) = Len(h) + 1
       /\ SubSeq(o.history, 1, Len(h)) = h
       /\ o.history[Len(h) + 1].discord_id = d
       /\ o.history[Len(h) + 1].guild_id = Guild
       /\ o.history[Len(h) + 1].role_id = o.decision.role_id
       /\ o.history[Len(h) + 1].action =
            (IF o.decision.call = "add_ok" THEN "added" ELSE "removed")
  ELSE o.history = h

\* C4: the step's new history rows are exactly its successful roles.add /
\* roles.remove calls, in order, each with the step's identity, the guild, the
\* decision's role and its direction; a failed call and a step without a call
\* leave the table as it was.  The same holds of one rule's outcome in
\* checkAndUpdateRole (on a row that carries a wallet_address), in
\* handleRemoveWallet and in handleReverify, on every grant state.
C4_RecordFollowsSuccessfulCall ==
  /\ IF ev.op \in DecisionOps
     THEN LET ok == OkCalls(ev.decisions)
          IN /\ Len(Appended) = Len(ok)
             /\ \A i \in DOMAIN ok :
                  /\ Appended[i].discord_id = ev.user
                  /\ Appended[i].guild_id = Guild
                  /\ Appended[i].role_id = ok[i].role_id
                  /\ Appended[i].action =
                       (IF ok[i].call = "add_ok" THEN "added" ELSE "removed")
                  /\ (Appended[i].action = "added"
                        <=> HasRole(granted, ev.user, ok[i].role_id))
     ELSE Appended = <<>>
  /\ \A g \in Grants, i \in DOMAIN role_configs :
       /\ \A a \in Addrs, e \in EnvInputs1 :
            RecordMatches(CheckAndUpdateRole(g, history, RowWithWallet("u1", a),
                                             role_configs[i], e), history, "u1")
       /\ \A ws \in GetWallets(wallets, "u1") :
            \A e \in EnvFor(AddressesOf(ws)) :
              /\ RecordMatches(RemoveWalletRule(g, history, "u1", ws, role_configs[i], e),
                               history, "u1")
              /\ RecordMatches(ReverifyRule(g, history, "u1", ws, role_configs[i], e),
                               history, "u1")

\* A step whose roles.remove went through, and one row for it.
C4_Witness ==
  /\ ev.op = "reverifyRule"
  /\ ev.decisions[1].call = "remove_ok"
  /\ Len(Appended) = 1
  /\ \E i \in 1..ev.before.hlen : history[i].action = "added"

\* The decision policy on one rule's outcome o, computed from grant state g
\* and history h.
PolicyHolds(o, g, h) ==
  LET dc == o.decision
      sat == AnyYes(dc.reads)
  IN (dc.exists /\ dc.reads # <<>> /\ ~AnyErr(dc.reads)) =>
       /\ (sat /\ ~dc.had) => dc.call \in AddCalls
       /\ (~sat /\ dc.had) => dc.call \in RemoveCalls
       /\ (sat <=> dc.had) => (dc.call = "none" /\ o.granted = g /\ o.history = h)

\* C5: in a reconciliation step whose reads all succeeded and whose role
\* exists: satisfied and not held -> roles.add is called (a row and the grant
\* when it succeeds); not satisfied and held -> roles.remove is called; in the
\* two other cases no call is made, no row is written and the grant state stays.
\* The same holds of checkAndUpdateRole on every row that carries a
\* wallet_address and of handleReverify's rule on every grant state.
C5_DecisionPolicy ==
  /\ \A g \in Grants, i \in DOMAIN role_configs :
       /\ \A a \in Addrs, e \in EnvInputs1 :
            PolicyHolds(CheckAndUpdateRole(g, history, RowWithWallet("u1", a),
                                           role_configs[i], e), g, history)
       /\ \A ws \in GetWallets(wallets, "u1") :
            \A e \in EnvFor(AddressesOf(ws)) :
              PolicyHolds(ReverifyRule(g, history, "u1", ws, role_configs[i], e), g, history)
  /\ ev.op \in ReconcileOps =>
       \A i \in DOMAIN ev.decisions :
         LET dc == ev.decisions[i]
             sat == AnyYes(dc.reads)
         IN (dc.exists /\ dc.reads # <<>> /\ ~AnyErr(dc.reads)) =>
              /\ (sat /\ ~dc.had) =>
                   /\ dc.call \in AddCalls
                   /\ dc.call = "add_ok" =>
                        HasRole(granted, ev.user, dc.role_id) /\ Len(Appended) = 1
              /\ (~sat /\ dc.had) =>
                   /\ dc.call \in RemoveCalls
                   /\ dc.call = "remove_ok" =>
                        ~HasRole(granted, ev.user, dc.role_id) /\ Len(Appended) = 1
              /\ (sat <=> dc.had) =>
                   /\ dc.call = "none"
                   /\ Appended = <<>>
                   /\ granted = ev.before.granted

\* handleReverify met a held role whose wallets all read below the threshold
\* and revoked it.
C5_Witness ==
  /\ ev.op = "reverifyRule"
  /\ ev.decisions[1].exists
  /\ AllNo(ev.decisions[1].reads)
  /\ ev.decisions[1].had
  /\ ev.decisions[1].call = "remove_ok"

\* C6: a reconciliation (handleVerify, handleReverify's rule iteration,
\* checkAndUpdateRole) of an identity that already holds the role and still
\* has the balance calls no roles.add and writes no history row.
C6_RepeatIsNoOp ==
  ev.op \in {"handleVerify", "reverifyRule", "checkAndUpdateRole"} =>
    \A i \in DOMAIN ev.decisions :
      LET dc == ev.decisions[i]
      IN (dc.had /\ AnyYes(dc.reads)) => (dc.call = "none" /\ Appended = <<>>)

\* C7: a checkAndUpdateRole of the scheduled run, for a member who holds the
\* role, with the endpoint answering, the role in the guild, and bound wallets
\* that are all below the threshold, calls roles.remove.
C7_ScheduledRunRevokes ==
  ev.op = "checkAndUpdateRole" =>
    \A i \in DOMAIN ev.decisions :
      LET dc == ev.decisions[i]
      IN (/\ dc.had
          /\ dc.exists
          /\ dc.down = {}
          /\ WalletsOf(wallets, ev.user) # {}
          /\ Sufficient(ev.user, dc.role_id) = {}) => dc.call \in RemoveCalls

\* C8: when handleVerify accepted the proof, the read reported the balance and
\* the role is in the guild, roles.add is called; when it goes through the
\* identity holds the role and exactly one 'added' row was appended.  A
\* following checkAndUpdateRole of the scheduled run, for an identity that
\* holds the role and has a bound wallet with the balance, makes no call,
\* writes no row and leaves the grant.
C8_BindGrantThenQuietRun ==
  /\ (ev.op = "handleVerify" /\ ev.outcome = "verified") =>
       \A i \in DOMAIN ev.decisions :
         LET dc == ev.decisions[i]
         IN (dc.exists /\ AnyYes(dc.reads)) =>
              /\ dc.call \in AddCalls
              /\ dc.call = "add_ok" =>
                   /\ HasRole(granted, ev.user, dc.role_id)
                   /\ Len(Appended) = 1
                   /\ Appended[1].action = "added"
                   /\ Appended[1].discord_id = ev.user
                   /\ Appended[1].role_id = dc.role_id
  /\ ev.op = "checkAndUpdateRole" =>
       \A i \in DOMAIN ev.decisions :
         LET dc == ev.decisions[i]
         IN (dc.had /\ Sufficient(ev.user, dc.role_id) # {}) =>
              /\ dc.call = "none"
              /\ Appended = <<>>
              /\ granted = ev.before.granted
              /\ HasRole(granted, ev.user, dc.role_id)

\* The scheduled run reached an identity whose only history row is the grant
\* of its initial verification, with the balance still there.
C8_Witness ==
  /\ ev.op = "checkAndUpdateRole"
  /\ ev.decisions[1].had
  /\ Sufficient(ev.user, ev.decisions[1].role_id) # {}
  /\ Len(history) = 1
  /\ history[1].action = "added"
  /\ history[1].reason = "Initial verification"

\* C9: in handleReverify's rule iteration and in handleRemoveWallet, no wallet
\* is read after the first one that has the balance; when a bound wallet has
\* the balance and the reads before it did not abort the rule, the rule counts
\* as satisfied: the role is not removed, and handleReverify adds it if missing.
C9_MultiWalletOr ==
  ev.op \in {"reverifyRule", "handleRemoveWallet"} =>
    \A i \in DOMAIN ev.decisions :
      LET dc == ev.decisions[i]
          readable == {w \in Sufficient(ev.user, dc.role_id) : w.wallet_address \notin dc.down}
          aborted == ev.op = "handleRemoveWallet" /\ AnyErr(dc.reads)
      IN /\ \A k \in DOMAIN dc.reads : dc.reads[k].result = "yes" => k = Len(dc.reads)
         /\ (readable # {} /\ ~aborted /\ (ev.op = "reverifyRule" => dc.exists)) =>
              /\ AnyYes(dc.reads)
              /\ dc.call \notin RemoveCalls
              /\ (ev.op = "reverifyRule" /\ ~dc.had) => dc.call \in AddCalls
              /\ dc.had => HasRole(granted, ev.user, dc.role_id)

\* handleReverify read W1 (insufficient), then W2 (sufficient), and left the
\* identity's third wallet unread.
C9_Witness ==
  /\ ev.op = "reverifyRule"
  /\ Len(ev.decisions[1].reads) = 2
  /\ ev.decisions[1].reads[1].result = "no"
  /\ ev.decisions[1].reads[2].result = "yes"
  /\ GetWalletCount(wallets, ev.user) = 3
  /\ ev.decisions[1].call = "add_ok"

\* What makes the proof recorded in step e one to reject.
Rejected(e) ==
  \/ ~IsAddressFormat(e.wallet)
  \/ e.recovered = "throw"
  \/ ToLowerCase(e.recovered) # ToLowerCase(e.wallet)

\* C10: a handleVerify whose address fails the format test, whose signature
\* does not parse, or whose signature recovers another address than the one
\* claimed, leaves users, wallets, roles and history as they were.
C10_RejectedProofChangesNothing ==
  [][(ev'.op = "handleVerify" /\ Rejected(ev')) =>
       /\ UNCHANGED <<users, wallets, granted, history>>
       /\ ev'.outcome \in {"invalid_address", "invalid_signature"}]_vars

\* A well-formed signature by the key of a2 was submitted for a1 and rejected.
C10_Witness ==
  /\ ev.op = "handleVerify"
  /\ ev.outcome = "invalid_signature"
  /\ ev.recovered = "A2"
  /\ ev.wallet = "a1"

\* C11: a handleVerify given the signature of the claimed wallet's key over a
\* message that handleGetMessage has shown to the same identity accepts it
\* and the wallet is bound.
C11_IssuedMessageAccepted ==
  (/\ ev.op = "handleVerify"
   /\ ev.outcome # "invalid_address"
   /\ ev.signed.msg \in issued
   /\ ev.signed.msg.id = ev.user
   /\ ev.signed.signer = ToLowerCase(ev.wallet)) =>
     /\ ev.outcome \in Accepted
     /\ \E w \in WalletsOf(wallets, ev.user) : w.wallet_address = ToLowerCase(ev.wallet)

\* C12: a signature with which handleVerify or the web verifyWallet bound an
\* address to one identity is rejected by the same handler for every other
\* identity.
C12_ProofTiedToIdentity ==
  (ev.op \in {"handleVerify", "verifyWallet"} /\ ev.outcome \in Accepted) =>
    \A other \in Users \ {ev.user} :
      ~VerifySignature(MessageFor(ev.op, other), ev.signed, ev.wallet)

\* The binding of identity d to the address typed as a, if there is one.
BindingOf(ws, d, a) ==
  {w \in ws : w.discord_id = d /\ w.wallet_address = ToLowerCase(a)}

Primaries(ws, d) == {w \in WalletsOf(ws, d) : w.is_primary = 1}

\* C13: every identity with a binding has exactly one binding flagged primary.
C13_ExactlyOnePrimary ==
  \A d \in Users :
    WalletsOf(wallets, d) # {} => Cardinality(Primaries(wallets, d)) = 1

\* C14: a handleRemoveWallet for the only wallet bound to the identity is
\* answered with the last-wallet rejection and changes no binding, no role,
\* no history row and no user row, and leaves no unlink pending.
C14_LastWalletKept ==
  [][(/\ ev'.op = "handleRemoveWallet"
      /\ \A k \in UnlinkSlots : rw[k].pc = "idle"
      /\ BindingOf(wallets, ev'.user, ev'.wallet) # {}
      /\ GetWalletCount(wallets, ev'.user) = 1) =>
       /\ ev'.outcome = "last_wallet"
       /\ UNCHANGED <<users, wallets, granted, history, rw>>]_vars

\* The last wallet of an identity that holds the role was asked to go.
C14_Witness ==
  /\ ev.op = "handleRemoveWallet"
  /\ ev.outcome = "last_wallet"
  /\ GetWalletCount(wallets, ev.user) = 1
  /\ HasRole(granted, ev.user, "r1")

\* C15: a completed unlink of a non-primary wallet of an identity that has a
\* primary removes exactly that row: every other row, of this and of any
\* other identity, stays as it was, primary flags included.
C15_UnlinkRemovesOneRow ==
  [][(/\ ev'.op = "handleRemoveWallet"
      /\ ev'.outcome = "removed"
      /\ Primaries(wallets, ev'.user) # {}
      /\ \A w \in BindingOf(wallets, ev'.user, ev'.wallet) : w.is_primary = 0) =>
       /\ Cardinality(BindingOf(wallets, ev'.user, ev'.wallet)) = 1
       /\ wallets' = wallets \ BindingOf(wallets, ev'.user, ev'.wallet)
       /\ Primaries(wallets', ev'.user) = Primaries(wallets, ev'.user)]_vars

\* u1 unlinked a2, typed in any case: a1 is still u1's primary and u2 still has
\* a2.
C15_Witness ==
  /\ ev.op = "handleRemoveWallet"
  /\ ev.outcome = "removed"
  /\ ev.user = "u1"
  /\ ToLowerCase(ev.wallet) = "a2"
  /\ BindingOf(wallets, "u2", "a2") # {}
  /\ Cardinality(Primaries(wallets, "u1")) = 1

PrimaryAddresses(ws, d) == {w.wallet_address : w \in Primaries(ws, d)}

\* C16: an accepted bind of an identity's first wallet leaves that wallet as
\* the one primary; an accepted bind by an identity that already has wallets,
\* of a new or of an already bound address, leaves the primary address as it was.
C16_BindKeepsPrimary ==
  [][(ev'.op \in {"handleVerify", "verifyWallet"} /\ ev'.outcome \in Accepted) =>
       IF WalletsOf(wallets, ev'.user) = {}
       THEN PrimaryAddresses(wallets', ev'.user) = {ToLowerCase(ev'.wallet)}
       ELSE PrimaryAddresses(wallets', ev'.user) = PrimaryAddresses(wallets, ev'.user)]_vars

\* The amounts a completed check compared: the staked amount is what
\* stakedBalanceOf returned, or the staking contract's balanceOf where
\* stakedBalanceOf is rejected.
SpotOf(e) == e.token.balanceOf.value
StakedOf(e) ==
  IF e.staking.stakedBalanceOf.ok THEN e.staking.stakedBalanceOf.value
  ELSE e.staking.balanceOf.value
FracLen(e) == Len(e.minBalance.frac)
\* The threshold times 10^FracLen, an integer.
ThresholdNumerator(e) ==
  e.minBalance.whole * Pow10(FracLen(e)) + DigitsValue(e.minBalance.frac)

\* C17: a staking check that returns a result reports hasBalance exactly when
\* spot + staked >= threshold * 10^decimals, as integers (both sides
\* multiplied by 10^FracLen to compare without fractions).
C17_StakingSum ==
  (ev.op = "checkERC20BalanceWithStaking" /\ ev.outcome \in {"yes", "no"}) =>
    ((ev.outcome = "yes") <=>
      ((SpotOf(ev) + StakedOf(ev)) * Pow10(FracLen(ev))
         >= ThresholdNumerator(ev) * Pow10(ev.token.decimals.value)))

\* Neither amount reaches the threshold alone, the sum meets it exactly, and
\* the check reports satisfied.
C17_Witness ==
  /\ ev.op = "checkERC20BalanceWithStaking"
  /\ ev.outcome = "yes"
  /\ ev.token.decimals.value = 1
  /\ ev.minBalance = [whole |-> 0, frac |-> <<5>>]
  /\ SpotOf(ev) = 2
  /\ StakedOf(ev) = 3

FailedCalls == {"add_fail", "remove_fail"}

C20_EveryIdentityOnce ==
  [][\A s \in Slots :
       /\ (runs[s].pc # "idle" /\ runs'[s].pc = "idle") =>
            runs[s].pc = "sleep" /\ runs[s].ui = Len(runs[s].users)
       /\ (runs[s].pc # "idle" /\ runs'[s].pc # "idle") =>
            /\ runs'[s].users = runs[s].users
            /\ \/ /\ runs'[s].ui = runs[s].ui
                  /\ runs'[s].pc = "fetch" => runs[s].pc = "fetch"
               \/ /\ runs'[s].ui = runs[s].ui + 1
                  /\ runs[s].pc = "sleep"
                  /\ runs'[s].pc = "fetch"
       /\ (runs[s].pc = "idle" /\ runs'[s].pc # "idle") =>
            /\ runs'[s].pc = "fetch"
            /\ runs'[s].ui = 1
            /\ {runs'[s].users[k].discord_id : k \in DOMAIN runs'[s].users}
                 = DOMAIN users
            /\ Len(runs'[s].users) = Cardinality(DOMAIN users)]_vars

\* The run is at the second identity of its snapshot, whose decision failed
\* on its read, after the rule loop of the first identity ended the same way
\* (last_checked is written after the loop).
C20_Witness ==
  \E s \in Slots :
    /\ runs[s].pc = "sleep"
    /\ runs[s].ui = 2
    /\ ev.op = "checkAndUpdateRole"
    /\ ev.user = runs[s].users[2].discord_id
    /\ AllErr(ev.decisions[1].reads)
    /\ users[runs[s].users[1].discord_id].last_checked = now

\* C21: once stop() has been called, the run that was under way does not go
\* on to the next identity of its snapshot.
C21_StopBetweenIdentities ==
  [][job = "stopped" =>
       \A s \in Slots : ~(runs[s].pc = "sleep" /\ runs'[s].pc = "fetch")]_vars

\* The run whose rule step this transition is, if it is one.
ActingRuns == {s \in Slots : runs[s].pc = "rule" /\ runs'[s] # runs[s]}

C23_LastCheckedAfterRules ==
  [][/\ (ev'.op = "reverifyRule" /\ rv.pc = "rule" /\ rv.ci = Len(rv.cfgs)) =>
          users'[rv.users[rv.ui].discord_id].last_checked = now'
     /\ \A s \in ActingRuns :
          runs[s].ci = Len(runs[s].cfgs) =>
            users'[runs[s].users[runs[s].ui].discord_id].last_checked = now']_vars

\* The scheduled run has processed the last of the identity's two rules, the
\* read of which failed, and the row carries the time of the run.
C23_Witness ==
  /\ ev.op = "checkAndUpdateRole"
  /\ ev.decisions[1].role_id = "r2"
  /\ AllErr(ev.decisions[1].reads)
  /\ \E s \in Slots : runs[s].pc = "sleep"
  /\ users[ev.user].last_checked = now

\* C24: an identity that has a wallet bound keeps at least one, whichever way
\* its unlink commands interleave.
C24_NeverZeroBindings ==
  \A d \in DOMAIN users : WalletsOf(wallets, d) # {}

NewRows(roleId) ==
  {k \in (Len(history) + 1)..Len(history') : history'[k].role_id = roleId}

\* C26: a completed unlink evaluates every rule against the wallets that
\* remain.  Where the reads succeed, the role exists and the remove call is
\* accepted, a held role that no remaining wallet satisfies is revoked with one
\* 'removed' row; a held role some remaining wallet satisfies is kept with no
\* row; and no role is granted and no 'added' row written.
C26_UnlinkReevaluates ==
  [][(ev'.op = "handleRemoveWallet" /\ ev'.outcome = "removed") =>
       LET d == ev'.user
           cfgs == GetRoleConfigs(Guild)
           decs == ev'.decisions
           rem == WalletsOf(wallets', d)
       IN /\ Len(decs) = Len(cfgs)
          /\ granted' \subseteq granted
          /\ \A k \in (Len(history) + 1)..Len(history') : history'[k].action = "removed"
          /\ \A i \in DOMAIN cfgs :
               LET roleId == cfgs[i].role_id
                   held == HasRole(granted, d, roleId)
                   sat == \E w \in rem : balance[w.wallet_address] >= cfgs[i].min_balance
                   clean == /\ decs[i].down = {}
                            /\ decs[i].exists
                            /\ decs[i].call # "remove_fail"
               IN /\ decs[i].role_id = roleId
                  /\ (held /\ ~sat /\ clean) =>
                        /\ ~HasRole(granted', d, roleId)
                        /\ Cardinality(NewRows(roleId)) = 1
                        /\ \A k \in NewRows(roleId) :
                             history'[k].discord_id = d /\ history'[k].reason = "Wallet removed"
                  /\ (held /\ sat /\ decs[i].down = {}) =>
                        HasRole(granted', d, roleId) /\ NewRows(roleId) = {}
                  /\ ~held => NewRows(roleId) = {}]_vars

\* u1 held r1 and r2, a2 held a token and a1 none, and u1 unlinked a2: both
\* roles are gone, one row each.
C26_Witness ==
  /\ ev.op = "handleRemoveWallet"
  /\ ev.outcome = "removed"
  /\ ToLowerCase(ev.wallet) = "a2"
  /\ ev.before.granted = {<<"u1", "r1">>, <<"u1", "r2">>}
  /\ balance["a2"] >= 1
  /\ balance["a1"] = 0
  /\ granted = {}
  /\ Len(history) = 2

\* C29: for a threshold text 'subId:amount' (digits, ':', digits) the check is
\* satisfied exactly when the wallet's count of that sub-id is at least the
\* amount, and for a text with no amount part ('subId' or 'subId:') exactly
\* when the count is at least 1; stated of calls whose ledger read is answered.
\* k is the place of the ':', or one past the end of a text without one.
C29_MultiTokenThreshold ==
  (ev.op = "verifyTokenRequirements" /\ ev.outcome # "pending" /\ ev.chain.multi.ok) =>
    LET text == ev.roleConfig.min_balance
    IN \A k \in 2..(Len(text) + 1) :
         LET subId == SubSeq(text, 1, k - 1)
             amount == SubSeq(text, k + 1, Len(text))
             count == MultiBalanceOf(ev.chain.multi, TextValue(subId))
             needed == IF amount = <<>> THEN 1 ELSE TextValue(amount)
         IN (/\ k <= Len(text) => text[k] = ":"
             /\ AllDigits(subId)
             /\ AllDigits(amount)) =>
              /\ ev.outcome \in {"yes", "no"}
              /\ (ev.outcome = "yes") <=> (count >= needed)

\* Threshold '2:1': a wallet with one token of sub-id 2 and none of sub-id 1
\* satisfies it.
C29_Witness ==
  /\ ev.op = "verifyTokenRequirements"
  /\ ev.roleConfig.min_balance = <<"2", ":", "1">>
  /\ ev.chain.multi.ok
  /\ ev.chain.multi.counts[2] = 1
  /\ ev.chain.multi.counts[1] = 0
  /\ ev.outcome = "yes"

\* The read the rule's kind needs that was rejected, if any; for a staking
\* rule the staked amount is lost only when both accessors are rejected.
NeededReadFailed(roleConfig, chain) ==
  IF roleConfig.token_type = "ERC20"
  THEN \/ ~chain.token.balanceOf.ok
       \/ ~chain.token.decimals.ok
       \/ /\ roleConfig.staking_contract # Null
          /\ ~chain.staking.stakedBalanceOf.ok
          /\ ~chain.staking.balanceOf.ok
  ELSE IF roleConfig.token_type = "ERC721" THEN ~chain.token.balanceOf.ok
  ELSE IF roleConfig.token_type = "ERC1155" THEN ~chain.multi.ok
  ELSE FALSE

\* C27: a call of verifyTokenRequirements in which a read the rule needs was
\* rejected, or whose rule has a kind outside ERC20 / ERC721 / ERC1155, ends in
\* a thrown error, never in a result.
C27_FailedReadIsError ==
  (ev.op = "verifyTokenRequirements" /\ ev.outcome # "pending") =>
    ((\/ NeededReadFailed(ev.roleConfig, ev.chain)
      \/ ev.roleConfig.token_type \notin {"ERC20", "ERC721", "ERC1155"}) =>
        ev.outcome = "err")

\* A staking rule with threshold 1: the wallet holds the threshold itself, both
\* accessors of the staking contract are rejected, and the call throws.
C27_Witness ==
  /\ ev.op = "verifyTokenRequirements"
  /\ ev.roleConfig.token_type = "ERC20"
  /\ ev.roleConfig.staking_contract # Null
  /\ ev.roleConfig.min_balance = <<"1">>
  /\ ev.chain.token.balanceOf.ok
  /\ ev.chain.token.balanceOf.value = MaxRaw
  /\ ev.chain.token.decimals.ok
  /\ ev.chain.token.decimals.value = 0
  /\ ~ev.chain.staking.stakedBalanceOf.ok
  /\ ~ev.chain.staking.balanceOf.ok
  /\ ev.outcome = "err"

\* C28: getStakedBalance calls stakedBalanceOf first and balanceOf only when
\* that call was rejected; it returns the first answer it gets and fails only
\* when both calls are rejected.
C28_StakedFallbackOrder ==
  (ev.op = "verifyTokenRequirements" /\ ev.staked.calls # <<>>) =>
    LET first == ev.chain.staking.stakedBalanceOf
        second == ev.chain.staking.balanceOf
    IN /\ ev.staked.calls[1] = "stakedBalanceOf"
       /\ first.ok => /\ ev.staked.calls = <<"stakedBalanceOf">>
                      /\ ev.staked.ok
                      /\ ev.staked.value = first.value
       /\ ~first.ok => /\ ev.staked.calls = <<"stakedBalanceOf", "balanceOf">>
                       /\ ev.staked.ok = second.ok
                       /\ second.ok => ev.staked.value = second.value
       /\ ~ev.staked.ok <=> (~first.ok /\ ~second.ok)

\* stakedBalanceOf is rejected, balanceOf of the staking contract answers
\* MaxRaw, and that amount alone meets the threshold.
C28_Witness ==
  /\ ev.op = "verifyTokenRequirements"
  /\ ev.staked.calls = <<"stakedBalanceOf", "balanceOf">>
  /\ ev.staked.ok
  /\ ev.staked.value = MaxRaw
  /\ ev.chain.token.balanceOf.value = 0
  /\ ev.outcome = "yes"

\* The threshold shape of each kind: a decimal number for ERC20, a whole
\* number for ERC721, 'subId' or 'subId:amount' in whole numbers for ERC1155.
WholeNumber(s) == s # <<>> /\ AllDigits(s)
ShapeFits(tokenType, text) ==
  IF tokenType = "ERC20" THEN DecimalShape(text)
  ELSE IF tokenType = "ERC721" THEN WholeNumber(text)
  ELSE IF tokenType = "ERC1155"
  THEN \/ WholeNumber(text)
       \/ \E k \in DOMAIN text :
            /\ text[k] = ":"
            /\ WholeNumber(SubSeq(text, 1, k - 1))
            /\ WholeNumber(SubSeq(text, k + 1, Len(text)))
  ELSE FALSE

\* C30: every stored rule has a threshold of the shape its token kind takes.
C30_ThresholdFitsKind ==
  \A i \in DOMAIN role_configs :
    ShapeFits(role_configs[i].token_type, role_configs[i].min_balance)

\* C31: a /addrole command whose contract address, or whose staking address
\* when one is given, does not match the address pattern is answered with the
\* reason naming the malformed field, and role_configs is unchanged.
C31_MalformedAddressRejected ==
  [][ev'.op = "handleAddRole" =>
       LET badContract == ~IsAddressFormat(ev'.contract)
           badStaking == ev'.staking # Null /\ ~IsAddressFormat(ev'.staking)
       IN /\ badContract => ev'.outcome = "invalid_contract"
          /\ (~badContract /\ badStaking) => ev'.outcome = "invalid_staking"
          /\ (badContract \/ badStaking) => UNCHANGED role_configs]_vars

\* With one rule stored, a command with a valid contract and a malformed
\* staking address was refused and the rule table still has that one rule.
C31_Witness ==
  /\ ev.op = "handleAddRole"
  /\ ev.contract = "A1"
  /\ ev.staking = "zz"
  /\ ev.outcome = "invalid_staking"
  /\ Len(role_configs) = 1

\* C32: the rows of an identity and role are listed by the status query
\* (getVerificationHistory(id, 5), newest first) in the order their decisions
\* were applied: of two such rows the one written later is listed first.
C32_HistoryInAppliedOrder ==
  \A d \in Users : \A q \in GetVerificationHistory(history, d, 5) :
    \A i, j \in DOMAIN q :
      (i < j /\ history[q[i]].role_id = history[q[j]].role_id) => q[i] > q[j]

\* C33: every stored address is in lower case, an identity has at most one
\* row per address, and an accepted bind of an address the identity already
\* has, typed in any case, leaves its rows and its wallet count as they were.
C33_BindingsUnique ==
  [][/\ \A w \in wallets' : ToLowerCase(w.wallet_address) = w.wallet_address
     /\ \A w1, w2 \in wallets' :
          (w1.discord_id = w2.discord_id /\ w1.wallet_address = w2.wallet_address)
            => w1 = w2
     /\ (/\ ev'.op \in {"handleVerify", "verifyWallet"}
         /\ ev'.outcome \in Accepted
         /\ BindingOf(wallets, ev'.user, ev'.wallet) # {}) =>
          /\ GetWalletCount(wallets', ev'.user) = GetWalletCount(wallets, ev'.user)
          /\ Cardinality(BindingOf(wallets', ev'.user, ev'.wallet)) = 1]_vars

\* u1 bound a1 and a2 at time 0 and, a tick later, proved a1 again typing it
\* in upper case: still two rows, a1's from time 0.
C33_Witness ==
  /\ ev.op = "handleVerify"
  /\ ev.outcome \in Accepted
  /\ ev.wallet = "A1"
  /\ now = 1
  /\ GetWalletCount(wallets, "u1") = 2
  /\ \A w \in BindingOf(wallets, "u1", "a1") : w.verified_at = 0

\* C34: the flag is set exactly while a run is live, whichever way the last
\* run ended (its user loop finished, with or without failed decisions, it
\* found no users, or db.getAllUsers threw), and a trigger that arrives when
\* no run is live is not skipped.
C34_GuardReleased ==
  [][/\ isRunning' <=> (\E s \in Slots : runs'[s].pc # "idle")
     /\ (ev'.op = "runVerification" /\ LiveRuns = {}) => ev'.outcome # "skipped"]_vars

\* A run has reconciled u2, the last user of its snapshot, and ended; the next
\* trigger started a new run.
C34_Witness ==
  /\ ev.op = "runVerification"
  /\ ev.outcome = "started"
  /\ users["u2"].last_checked = now
  /\ users["u1"].last_checked = now

\* C35: once stop() has been called no run starts, by the cron job or by the
\* startup timer.
C35_NoRunAfterStop ==
  [][job = "stopped" => ~(ev'.op = "runVerification" /\ ev'.outcome = "started")]_vars

\* C36: a bind by the command or by the web endpoint takes no role from
\* anyone and writes no 'removed' row: every role held before the step is held
\* after it, whatever the new wallet holds.
C36_BindNeverRevokes ==
  [][ev'.op \in {"handleVerify", "verifyWallet"} =>
       /\ granted \subseteq granted'
       /\ Len(history') >= Len(history)
       /\ SubSeq(history', 1, Len(history)) = history
       /\ \A i \in DOMAIN history' : i > Len(history) => history'[i].action = "added"]_vars

\* The identity held r1, bound a wallet that does not satisfy the rule, and
\* still holds r1.
C36_Witness ==
  /\ ev.op = "handleVerify"
  /\ ev.outcome = "verified"
  /\ <<"u1", "r1">> \in ev.before.granted
  /\ \E i \in DOMAIN ev.decisions :
        /\ ev.decisions[i].role_id = "r1"
        /\ ev.decisions[i].reads[1].result = "no"
  /\ <<"u1", "r1">> \in granted

\* C37: once the web endpoint has answered with success, the binding it
\* answered for is in the store; a failed store write is never answered with
\* success.
C37_SuccessOnlyAfterPersisted ==
  (ev.op = "verifyWallet" /\ ev.outcome = "bound") =>
    /\ BindingOf(wallets, ev.user, ToLowerCase(ev.wallet)) # {}
    /\ ev.write # "failed"

\* C38: every binding's owner has a row in users; no step removes a row of
\* users or changes its created_at; a row appears only in an accepted bind by
\* that identity, with created_at the time of the bind.
C38_IdentityCreatedOnce ==
  [][/\ \A w \in wallets' : w.discord_id \in DOMAIN users'
     /\ DOMAIN users \subseteq DOMAIN users'
     /\ \A d \in DOMAIN users : users'[d].created_at = users[d].created_at
     /\ \A d \in DOMAIN users' \ DOMAIN users :
          /\ ev'.op \in {"handleVerify", "verifyWallet"}
          /\ ev'.outcome \in Accepted
          /\ ev'.user = d
          /\ users'[d].created_at = now]_vars

\* A later bind by an identity created earlier: created_at is still the time
\* of the first bind.
C38_Witness ==
  /\ ev.op = "handleVerify"
  /\ ev.outcome \in Accepted
  /\ ev.user = "u1"
  /\ now = 1
  /\ users["u1"].created_at = 0
  /\ GetWalletCount(wallets, "u1") = 2

\* C18: no address is bound to two identities.
C18_AddressHasOneOwner ==
  \A w1, w2 \in wallets :
    w1.wallet_address = w2.wallet_address => w1.discord_id = w2.discord_id

====
